---------------------------- MODULE Spec2Model ----------------------------
(***************************************************************************)
(* A model of the personal-finance-analyzer core (src/src/load_data.py)    *)
(* and of the pipeline that drives it (src/app.py).                         *)
(*                                                                         *)
(* Text is modelled by TLA+ strings, on which TLC evaluates Len, SubSeq    *)
(* and \o.  A table cell is a record: a missing value (NaN), a text or a   *)
(* number.  Amounts are whole numbers.                                     *)
(***************************************************************************)
EXTENDS Integers, Sequences, FiniteSets, TLC

(***************************************************************************)
(* Python text primitives                                                  *)
(***************************************************************************)

\* s[i], the one-character string at position i
CharAt(s, i) == SubSeq(s, i, i)

\* `sub in s`
Contains(s, sub) ==
    \E i \in 1..(Len(s) - Len(sub) + 1) : SubSeq(s, i, i + Len(sub) - 1) = sub

UpperChars == "ABCDEFGHIJKLMNOPQRSTUVWXYZ"
LowerChars == "abcdefghijklmnopqrstuvwxyz"

UpperSet == {CharAt(UpperChars, i) : i \in 1..Len(UpperChars)}

\* the lower-case letter of every upper-case one
LowerOf ==
    [u \in UpperSet |->
        CharAt(LowerChars, CHOOSE j \in 1..Len(UpperChars) : CharAt(UpperChars, j) = u)]

LowerChar(c) == IF c \in UpperSet THEN LowerOf[c] ELSE c

\* str.lower()
RECURSIVE Lower(_)
Lower(s) == IF Len(s) = 0 THEN "" ELSE LowerChar(CharAt(s, 1)) \o Lower(Tail(s))

IsSpace(c) == c = " "

\* str.strip()
RECURSIVE LStrip(_)
LStrip(s) == IF Len(s) > 0 /\ IsSpace(CharAt(s, 1)) THEN LStrip(Tail(s)) ELSE s

RECURSIVE RStrip(_)
RStrip(s) ==
    IF Len(s) > 0 /\ IsSpace(CharAt(s, Len(s)))
    THEN RStrip(SubSeq(s, 1, Len(s) - 1))
    ELSE s

Strip(s) == RStrip(LStrip(s))

\* str.replace(old, new): leftmost non-overlapping occurrences, old non-empty
RECURSIVE Replace(_, _, _)
Replace(s, old, new) ==
    IF Len(s) < Len(old) THEN s
    ELSE IF SubSeq(s, 1, Len(old)) = old
         THEN new \o Replace(SubSeq(s, Len(old) + 1, Len(s)), old, new)
         ELSE CharAt(s, 1) \o Replace(Tail(s), old, new)

Digits == "0123456789"

DigitSet == {CharAt(Digits, i) : i \in 1..Len(Digits)}

DigitOf == [c \in DigitSet |-> (CHOOSE i \in 1..Len(Digits) : CharAt(Digits, i) = c) - 1]

IsDigit(c) == c \in DigitSet

DigitVal(c) == DigitOf[c]

AllDigits(s) == \A i \in 1..Len(s) : IsDigit(CharAt(s, i))

AllZeros(s) == \A i \in 1..Len(s) : CharAt(s, i) = "0"

RECURSIVE DigitsVal(_)
DigitsVal(s) ==
    IF Len(s) = 0 THEN 0
    ELSE 10 * DigitsVal(SubSeq(s, 1, Len(s) - 1)) + DigitVal(CharAt(s, Len(s)))

\* str(n) of a Python int
RECURSIVE NatToStr(_)
NatToStr(n) ==
    IF n < 10 THEN CharAt(Digits, n + 1)
    ELSE NatToStr(n \div 10) \o CharAt(Digits, (n % 10) + 1)

IntToStr(n) == IF n < 0 THEN "-" \o NatToStr(-n) ELSE NatToStr(n)

(***************************************************************************)
(* float(text), on the literals the model's cells are made of: an optional *)
(* sign, digits, and an optional fraction of zeros; surrounding blanks are *)
(* accepted.  Anything else raises ValueError (ok = FALSE).                *)
(***************************************************************************)
UnsignedFloat(s) ==
    LET dot  == IF Contains(s, ".")
                THEN CHOOSE i \in 1..Len(s) : CharAt(s, i) = "."
                ELSE Len(s) + 1
        ip   == SubSeq(s, 1, dot - 1)
        fp   == SubSeq(s, dot + 1, Len(s))
    IN  IF Len(ip) > 0 /\ AllDigits(ip) /\ AllZeros(fp)
        THEN [ok |-> TRUE, v |-> DigitsVal(ip)]
        ELSE [ok |-> FALSE, v |-> 0]

PyFloat(text) ==
    LET s == Strip(text)
    IN  IF Len(s) > 0 /\ CharAt(s, 1) = "-"
        THEN LET r == UnsignedFloat(Tail(s)) IN [ok |-> r.ok, v |-> 0 - r.v]
        ELSE IF Len(s) > 0 /\ CharAt(s, 1) = "+"
             THEN UnsignedFloat(Tail(s))
             ELSE UnsignedFloat(s)

(***************************************************************************)
(* Cells and tables                                                        *)
(***************************************************************************)
NaN    == [t |-> "nan", s |-> "", n |-> 0]
Str(x) == [t |-> "str", s |-> x, n |-> 0]
Num(x) == [t |-> "num", s |-> "", n |-> x]

\* pd.notna(val)
NotNa(c) == c.t # "nan"

\* str(val)
PyStr(c) == IF c.t = "nan" THEN "nan" ELSE IF c.t = "str" THEN c.s ELSE IntToStr(c.n)

\* a DataFrame: column labels (cells) and rows of cells, one cell per column
DataFrame(cols, rows) == [columns |-> cols, rows |-> rows]

RECURSIVE JoinStr(_, _)
JoinStr(parts, sep) ==
    IF Len(parts) = 0 THEN ""
    ELSE IF Len(parts) = 1 THEN parts[1]
         ELSE parts[1] \o sep \o JoinStr(Tail(parts), sep)

RECURSIVE SelectSeqIdx(_, _, _)
\* the subsequence of s at the positions i (in order) for which keep[i]
SelectSeqIdx(s, keep, i) ==
    IF i > Len(s) THEN <<>>
    ELSE (IF keep[i] THEN <<s[i]>> ELSE <<>>) \o SelectSeqIdx(s, keep, i + 1)

(***************************************************************************)
(* detect_and_skip_header                                                  *)
(***************************************************************************)
MaxScanRows == 20

HeaderKeywords == <<"trans", "date", "description", "debit", "credit", "narration">>

\* ' '.join([str(val).lower() for val in row.values if pd.notna(val)])
RowStr(row) ==
    LET keep  == [i \in 1..Len(row) |-> NotNa(row[i])]
        cells == SelectSeqIdx(row, keep, 1)
    IN  JoinStr([i \in 1..Len(cells) |-> Lower(PyStr(cells[i]))], " ")

HeaderAnyKeyword(rowstr) ==
    \E k \in 1..Len(HeaderKeywords) : Contains(rowstr, HeaderKeywords[k])

IsHeaderRow(row) == HeaderAnyKeyword(RowStr(row))

Min(a, b) == IF a < b THEN a ELSE b

\* a faulty variant: the row found stays among the data rows
DetectHeaderKeepingRow(df) ==
    LET max_rows == Min(MaxScanRows, Len(df.rows))
        hits     == {i \in 1..max_rows : IsHeaderRow(df.rows[i])}
    IN  IF hits = {} THEN df
        ELSE LET idx == CHOOSE i \in hits : \A j \in hits : i <= j
             IN  DataFrame(df.rows[idx], SubSeq(df.rows, idx, Len(df.rows)))

detect_and_skip_header(df) ==
    LET max_rows == Min(MaxScanRows, Len(df.rows))
        hits     == {i \in 1..max_rows : IsHeaderRow(df.rows[i])}
    IN  IF hits = {} THEN df
        ELSE LET idx == CHOOSE i \in hits : \A j \in hits : i <= j
             IN  DataFrame(df.rows[idx], SubSeq(df.rows, idx + 1, Len(df.rows)))


(***************************************************************************)
(* load_and_clean_expenses: column labels                                  *)
(***************************************************************************)

\* str(c).strip().lower() of every column label
StandardizeColumns(cols) == [i \in 1..Len(cols) |-> Lower(Strip(PyStr(cols[i])))]

\* cols[cols.duplicated()].unique(): the labels that occur again, in the order
\* of their first repetition
RECURSIVE DuplicatedLabels(_, _, _)
DuplicatedLabels(cols, i, acc) ==
    IF i > Len(cols) THEN acc
    ELSE IF (\E j \in 1..(i - 1) : cols[j] = cols[i])
            /\ ~(\E k \in 1..Len(acc) : acc[k] = cols[i])
         THEN DuplicatedLabels(cols, i + 1, Append(acc, cols[i]))
         ELSE DuplicatedLabels(cols, i + 1, acc)

\* one pass of the loop body: the r-th (from 0) column now labelled dup becomes
\* dup.r, the 0-th keeps its label
SuffixDuplicate(cols, dup) ==
    [i \in 1..Len(cols) |->
        IF cols[i] # dup THEN cols[i]
        ELSE LET r == Cardinality({j \in 1..(i - 1) : cols[j] = dup})
             IN  IF r # 0 THEN dup \o "." \o IntToStr(r) ELSE dup]

RECURSIVE SuffixDuplicates(_, _)
SuffixDuplicates(cols, dups) ==
    IF Len(dups) = 0 THEN cols
    ELSE SuffixDuplicates(SuffixDuplicate(cols, Head(dups)), Tail(dups))

DeduplicateColumns(cols) == SuffixDuplicates(cols, DuplicatedLabels(cols, 1, <<>>))

\* the frame with only the columns i for which keep[i]
KeepColumns(df, keep) ==
    DataFrame(SelectSeqIdx(df.columns, keep, 1),
              [r \in 1..Len(df.rows) |-> SelectSeqIdx(df.rows[r], keep, 1)])

Column(df, i) == [r \in 1..Len(df.rows) |-> df.rows[r][i]]

NaCount(col) == Cardinality({r \in 1..Len(col) : ~NotNa(col[r])})

\* df.dropna(axis=1, how='all')
DropEmptyColumns(df) ==
    KeepColumns(df, [i \in 1..Len(df.columns) |-> NaCount(Column(df, i)) < Len(df.rows)])

\* unnamed columns with more than half of the cells missing are dropped
DropUnnamedColumns(df) ==
    KeepColumns(df, [i \in 1..Len(df.columns) |->
        ~(Contains(Lower(df.columns[i]), "unnamed")
          /\ 2 * NaCount(Column(df, i)) > Len(df.rows))])

\* int(cell) of astype(int); ok = FALSE when it raises
CellToInt(c) ==
    IF c.t = "num" THEN [ok |-> TRUE, v |-> c.n]
    ELSE IF c.t = "str" /\ Len(Strip(c.s)) > 0 /\ AllDigits(Strip(c.s))
         THEN [ok |-> TRUE, v |-> DigitsVal(Strip(c.s))]
         ELSE [ok |-> FALSE, v |-> 0]

\* df[first_col].dropna().astype(int).equals(pd.Series(range(n))): the present
\* cells are at rows 0..n-1 and hold 0..n-1
IsRowNumberColumn(col) ==
    LET present == {r \in 1..Len(col) : NotNa(col[r])}
        n       == Cardinality(present)
    IN  /\ present = 1..n
        /\ \A r \in present : CellToInt(col[r]).ok /\ CellToInt(col[r]).v = r - 1

DropRowNumberColumn(df) ==
    IF /\ Len(df.columns) > 0
       /\ Contains(Lower(df.columns[1]), "unnamed")
       /\ IsRowNumberColumn(Column(df, 1))
    THEN KeepColumns(df, [i \in 1..Len(df.columns) |-> i # 1])
    ELSE df

(***************************************************************************)
(* load_and_clean_expenses: column roles                                   *)
(***************************************************************************)
NoRole == "-"

\* a faulty chain: a transaction date that holds 'value' goes on to the
\* debit and credit rules
ColumnRoleFallingThrough(col) ==
    LET simple == Replace(Replace(Replace(Lower(Strip(col)), "(", ""), ")", ""), "?", "")
    IN  IF \/ Contains(simple, "desc") \/ Contains(simple, "narration")
           \/ Contains(simple, "details") \/ Contains(simple, "particular")
        THEN "description"
        ELSE IF /\ (Contains(simple, "trans") /\ Contains(simple, "date"))
                       \/ Contains(simple, "transdate")
                /\ ~Contains(simple, "value")
             THEN "date"
             ELSE IF Contains(simple, "debit") /\ ~Contains(simple, "credit")
                  THEN "debit"
                  ELSE IF Contains(simple, "credit") /\ ~Contains(simple, "debit")
                       THEN "credit"
                       ELSE NoRole

\* the if/elif chain of the mapping loop; NoRole when the label gets no entry
ColumnRole(col) ==
    LET col_clean == Lower(Strip(col))
        simple    == Replace(Replace(Replace(col_clean, "(", ""), ")", ""), "?", "")
    IN  IF \/ Contains(simple, "desc") \/ Contains(simple, "narration")
           \/ Contains(simple, "details") \/ Contains(simple, "particular")
        THEN "description"
        ELSE IF (Contains(simple, "trans") /\ Contains(simple, "date"))
                \/ Contains(simple, "transdate")
             THEN IF ~Contains(simple, "value") THEN "date" ELSE NoRole
             ELSE IF Contains(simple, "debit") /\ ~Contains(simple, "credit")
                  THEN "debit"
                  ELSE IF Contains(simple, "credit") /\ ~Contains(simple, "debit")
                       THEN "credit"
                       ELSE NoRole

\* the dict the mapping loop builds: the labels that get an entry
Mapping(cols) ==
    [c \in {cols[i] : i \in {j \in 1..Len(cols) : ColumnRole(cols[j]) # NoRole}} |->
        ColumnRole(c)]

\* df.rename(columns=mapping)
RenameColumns(cols) ==
    [i \in 1..Len(cols) |-> IF ColumnRole(cols[i]) # NoRole THEN ColumnRole(cols[i]) ELSE cols[i]]

HasColumn(cols, name) == \E i \in 1..Len(cols) : cols[i] = name

ColumnIndexes(cols, name) == {i \in 1..Len(cols) : cols[i] = name}

ColumnIndex(cols, name) == CHOOSE i \in ColumnIndexes(cols, name) : TRUE

(***************************************************************************)
(* load_and_clean_expenses: amount reconciliation                          *)
(***************************************************************************)

\* Series.fillna('0')
FillNa0(c) == IF NotNa(c) THEN c ELSE Str("0")

\* Series.replace('--', '0'): a cell that is exactly '--'
ReplaceDashCell(c) == IF c = Str("--") THEN Str("0") ELSE c

FloatOrZero(text) == IF PyFloat(text).ok THEN PyFloat(text).v ELSE 0

\* a debit or credit cell when both columns are present
ParseBothCell(c) ==
    LET val       == PyStr(ReplaceDashCell(FillNa0(c)))
        clean_val == Strip(Replace(Replace(val, ",", ""), "--", "0"))
    IN  IF clean_val = "" \/ clean_val = "--" THEN 0 ELSE FloatOrZero(clean_val)

\* a debit cell when only the debit column is present
ParseDebitOnlyCell(c) ==
    LET val_str == Strip(Replace(Replace(PyStr(FillNa0(c)), ",", ""), "--", ""))
    IN  IF val_str = "" \/ val_str = "0" THEN 0 ELSE FloatOrZero(val_str)

\* a credit cell when only the credit column is present
ParseCreditOnlyCell(c) ==
    LET clean_val == Strip(Replace(Replace(PyStr(FillNa0(c)), ",", ""), "--", "0"))
    IN  IF clean_val # "" THEN FloatOrZero(clean_val) ELSE 0

\* a faulty assignment: a column that exists keeps its cells
SetColumnKeeping(df, name, values) ==
    IF HasColumn(df.columns, name) THEN df
    ELSE DataFrame(Append(df.columns, name),
                   [r \in 1..Len(df.rows) |-> Append(df.rows[r], values[r])])

\* df[name] = values: in place when the column exists, appended otherwise
SetColumn(df, name, values) ==
    IF HasColumn(df.columns, name)
    THEN DataFrame(df.columns,
                   [r \in 1..Len(df.rows) |->
                       [i \in 1..Len(df.columns) |->
                           IF df.columns[i] = name THEN values[r] ELSE df.rows[r][i]]])
    ELSE DataFrame(Append(df.columns, name),
                   [r \in 1..Len(df.rows) |-> Append(df.rows[r], values[r])])

\* df.drop(columns=names)
DropColumns(df, names) ==
    KeepColumns(df, [i \in 1..Len(df.columns) |-> df.columns[i] \notin names])

Failure(error, required, available) ==
    [status |-> "error", error |-> error, required |-> required,
     available |-> available, columns |-> <<>>, rows |-> <<>>]

Success(df) ==
    [status |-> "ok", error |-> "", required |-> <<>>, available |-> <<>>,
     columns |-> df.columns, rows |-> df.rows]

\* a faulty variant: the operands the wrong way round
CombineAmountSwapped(credit_amount, debit_amount) == debit_amount - credit_amount

\* credits are positive, debits are negative
CombineAmount(credit_amount, debit_amount) == credit_amount - debit_amount

NegateDebit(x) == 0 - x

BothColumnsAmount(df) ==
    IF Cardinality(ColumnIndexes(df.columns, "debit")) > 1
       \/ Cardinality(ColumnIndexes(df.columns, "credit")) > 1
    THEN Failure("Error processing debit/credit columns", <<>>, <<>>)
    ELSE LET d      == ColumnIndex(df.columns, "debit")
             c      == ColumnIndex(df.columns, "credit")
             amount == [r \in 1..Len(df.rows) |->
                          Num(CombineAmount(ParseBothCell(df.rows[r][c]),
                                            ParseBothCell(df.rows[r][d])))]
         IN  Success(DropColumns(SetColumn(df, "amount", amount), {"debit", "credit"}))

\* with k > 1 columns labelled alike, iterating df[name] yields the k labels,
\* none of which is a number
DebitOnlyValues(df) ==
    LET idx == ColumnIndexes(df.columns, "debit")
    IN  IF Cardinality(idx) = 1
        THEN [r \in 1..Len(df.rows) |->
                 ParseDebitOnlyCell(df.rows[r][ColumnIndex(df.columns, "debit")])]
        ELSE [k \in 1..Cardinality(idx) |-> 0]

CreditOnlyValues(df) ==
    LET idx == ColumnIndexes(df.columns, "credit")
    IN  IF Cardinality(idx) = 1
        THEN [r \in 1..Len(df.rows) |->
                 ParseCreditOnlyCell(df.rows[r][ColumnIndex(df.columns, "credit")])]
        ELSE [k \in 1..Cardinality(idx) |-> 0]

DebitOnlyAmount(df) ==
    LET debit_values == DebitOnlyValues(df)
    IN  IF Len(debit_values) # Len(df.rows)
        THEN Failure("Error processing debit column", <<>>, <<>>)
        ELSE Success(DropColumns(
                 SetColumn(df, "amount",
                           [r \in 1..Len(df.rows) |-> Num(NegateDebit(debit_values[r]))]),
                 {"debit"}))

CreditOnlyAmount(df) ==
    LET credit_values == CreditOnlyValues(df)
    IN  IF Len(credit_values) # Len(df.rows)
        THEN Failure("Error processing credit column", <<>>, <<>>)
        ELSE Success(DropColumns(
                 SetColumn(df, "amount",
                           [r \in 1..Len(df.rows) |-> Num(credit_values[r])]),
                 {"credit"}))

\* the if/elif chain on the debit and credit columns; an 'amount' column is
\* left as it is when neither is present
ReconcileAmount(df) ==
    IF HasColumn(df.columns, "debit") /\ HasColumn(df.columns, "credit")
    THEN BothColumnsAmount(df)
    ELSE IF HasColumn(df.columns, "debit") THEN DebitOnlyAmount(df)
         ELSE IF HasColumn(df.columns, "credit") THEN CreditOnlyAmount(df)
              ELSE Success(df)

(***************************************************************************)
(* load_and_clean_expenses: required columns, dates, row filters           *)
(***************************************************************************)
Required == <<"date", "description", "amount">>

\* all(c in df.columns for c in required)
\* a faulty variant: any() in place of all()
HasAnyRequired(cols) == \E k \in 1..Len(Required) : HasColumn(cols, Required[k])

HasRequired(cols) == \A k \in 1..Len(Required) : HasColumn(cols, Required[k])

RECURSIVE RequiredIndexes(_, _)
\* df[required]: for each required label in turn, every column carrying it
RequiredIndexes(cols, k) ==
    IF k > Len(Required) THEN <<>>
    ELSE LET keep == [i \in 1..Len(cols) |-> cols[i] = Required[k]]
         IN  SelectSeqIdx([i \in 1..Len(cols) |-> i], keep, 1)
             \o RequiredIndexes(cols, k + 1)

SelectRequired(df) ==
    LET idx == RequiredIndexes(df.columns, 1)
    IN  DataFrame([j \in 1..Len(idx) |-> df.columns[idx[j]]],
                  [r \in 1..Len(df.rows) |-> [j \in 1..Len(idx) |-> df.rows[r][idx[j]]]])

IsLeap(y) == (y % 4 = 0 /\ y % 100 # 0) \/ y % 400 = 0

DaysInMonth(y, m) ==
    IF m = 2 THEN (IF IsLeap(y) THEN 29 ELSE 28)
    ELSE IF m \in {4, 6, 9, 11} THEN 30 ELSE 31

NaT == NaN
Date(y, m, d) == [t |-> "date", s |-> "", n |-> y * 10000 + m * 100 + d]

\* pd.to_datetime(text, errors="coerce") on the texts the model's date cells
\* are made of: YYYY-MM-DD parses when it is a calendar date, anything else
\* is NaT
ToDatetime(c) ==
    IF c.t # "str" THEN NaT
    ELSE LET x == Strip(c.s)
         IN  IF /\ Len(x) = 10
                /\ CharAt(x, 5) = "-" /\ CharAt(x, 8) = "-"
                /\ AllDigits(SubSeq(x, 1, 4)) /\ AllDigits(SubSeq(x, 6, 7))
                /\ AllDigits(SubSeq(x, 9, 10))
             THEN LET y == DigitsVal(SubSeq(x, 1, 4))
                      m == DigitsVal(SubSeq(x, 6, 7))
                      d == DigitsVal(SubSeq(x, 9, 10))
                  IN  IF y \in 1678..2261 /\ m \in 1..12 /\ d \in 1..DaysInMonth(y, m)
                      THEN Date(y, m, d)
                      ELSE NaT
             ELSE NaT

ConvertDate(df) ==
    [df EXCEPT !.rows = [r \in 1..Len(df.rows) |->
        [i \in 1..Len(df.columns) |->
            IF df.columns[i] = "date" THEN ToDatetime(df.rows[r][i]) ELSE df.rows[r][i]]]]

\* the sequence s, last element first
Reversed(s) == [i \in 1..Len(s) |-> s[Len(s) + 1 - i]]

\* the rows kept, last first
KeepRowsReversed(df, keep) == DataFrame(df.columns, Reversed(SelectSeqIdx(df.rows, keep, 1)))

KeepRows(df, keep) == DataFrame(df.columns, SelectSeqIdx(df.rows, keep, 1))

\* a faulty dropna: the rows that stay come out last first
DropInvalidRowsReversed(df) ==
    KeepRowsReversed(df, [r \in 1..Len(df.rows) |->
        \A i \in 1..Len(df.columns) : NotNa(df.rows[r][i])])

\* df.dropna(subset=["date", "amount", "description"])
DropInvalidRows(df) ==
    KeepRows(df, [r \in 1..Len(df.rows) |->
        \A i \in 1..Len(df.columns) : NotNa(df.rows[r][i])])

\* amount != 0, element by element: a text is never equal to the number 0
AmountNotZero(c) == ~(c.t = "num" /\ c.n = 0)

\* df[df["amount"] != 0]
DropZeroAmounts(df) ==
    LET a == ColumnIndex(df.columns, "amount")
    IN  KeepRows(df, [r \in 1..Len(df.rows) |-> AmountNotZero(df.rows[r][a])])

(***************************************************************************)
(* load_and_clean_expenses                                                 *)
(***************************************************************************)
\* the table the mapping loop runs over
BeforeMapping(df) ==
    LET named == DataFrame(DeduplicateColumns(StandardizeColumns(df.columns)), df.rows)
    IN  DropRowNumberColumn(DropUnnamedColumns(DropEmptyColumns(named)))

PrepareColumns(df) ==
    LET named == DataFrame(DeduplicateColumns(StandardizeColumns(df.columns)), df.rows)
        kept  == DropRowNumberColumn(DropUnnamedColumns(DropEmptyColumns(named)))
    IN  DataFrame(RenameColumns(kept.columns), kept.rows)

CleanRows(df) ==
    IF Cardinality(ColumnIndexes(df.columns, "date")) > 1
    THEN Failure("to_datetime: cannot assemble", <<>>, <<>>)
    ELSE Success(DropZeroAmounts(DropInvalidRows(ConvertDate(df))))

\* the check of the required columns, then df[required], which raises a
\* KeyError for a label that is not there
CheckRequired(df) ==
    IF ~HasRequired(df.columns)
    THEN Failure("SchemaError", Required, df.columns)
    ELSE IF \E k \in 1..Len(Required) : ~HasColumn(df.columns, Required[k])
         THEN Failure("KeyError", Required, df.columns)
         ELSE CleanRows(SelectRequired(df))

load_and_clean_expenses(df_override, skip_header_detection) ==
    LET df         == IF ~skip_header_detection
                      THEN detect_and_skip_header(df_override)
                      ELSE df_override
        reconciled == ReconcileAmount(PrepareColumns(df))
    IN  IF reconciled.status = "error" THEN reconciled
        ELSE CheckRequired(DataFrame(reconciled.columns, reconciled.rows))

(***************************************************************************)
(* State                                                                   *)
(***************************************************************************)
VARIABLES
    pc,             \* position of the run
    df_raw,         \* the table read from the upload (process_data)
    manual_mode,    \* the "Manually set header row" setting
    df_clean,       \* what load_and_clean_expenses returned or raised
    category,       \* df_clean['category'], one entry per row
    is_anomaly,     \* df_clean['is_anomaly'], one entry per row
    month,          \* df_clean['month'], one entry per row
    screen,         \* what the page shows
    net_flow,       \* the result of calculate_net_flow
    cat_stats,      \* the result of calculate_category_stats
    partial_ratio,  \* fuzz.partial_ratio(keyword, description), per description
    description,    \* the argument of categorize_transaction
    amounts,        \* the amount column given to the statistics
    categories,     \* the category column given to the statistics
    threshold,      \* the threshold argument of detect_anomalies
    header_out,     \* the result of detect_and_skip_header
    mean_error,     \* the rounding error of the mean that Series.mean() computes
    dates,          \* the date column given to the statistics
    m_stats,        \* the result of calculate_monthly_stats
    budget,         \* the "Set Budget Target" input of the budget tab
    period,         \* the "Period" input of the budget tab
    budget_view,    \* what the budget tab computes: spent, percent, status
    mapping         \* the mapping of load_and_clean_expenses: label -> role

vars == <<pc, df_raw, manual_mode, df_clean, category, is_anomaly, month, screen,
          net_flow, cat_stats, partial_ratio, description, amounts, categories,
          threshold, header_out, mean_error,
          dates, m_stats, budget, period, budget_view, mapping>>

\* the value of a variable that holds nothing (yet)
None == [status |-> "none"]

\* the budget tab as the page first shows it, and no dates
DefaultBudget == 200000
DefaultPeriod == "This Month"

NoBudgetInputs == dates = <<>> /\ budget = DefaultBudget /\ period = DefaultPeriod

(***************************************************************************)
(* CATEGORIES and categorize_transaction                                   *)
(***************************************************************************)
CATEGORIES == <<
    [cat |-> "Food & Dining",
     keywords |-> <<"restaurant", "shawarma", "kfc", "mcdonald", "eat", "shoprite",
                    "ubereats", "food", "cafe", "pizza", "chicken", "burger">>],
    [cat |-> "Transport",
     keywords |-> <<"uber", "bolt", "taxi", "fuel", "gas", "bus", "transport", "fare">>],
    [cat |-> "Utilities",
     keywords |-> <<"electricity", "water", "internet", "dstv", "mtn", "data", "airtime",
                    "nepa", "phcn", "ikedc", "ekedc">>],
    [cat |-> "Shopping",
     keywords |-> <<"amazon", "jumia", "mall", "shop", "konga", "store", "market">>],
    [cat |-> "Income",
     keywords |-> <<"salary", "payroll", "interest earned", "bonus", "credit", "deposit",
                    "transfer in", "earned">>],
    [cat |-> "Savings",
     keywords |-> <<"owealth", "auto-save", "auto save", "withdrawal(transaction payment)",
                    "save", "investment", "balance">>],
    [cat |-> "Entertainment",
     keywords |-> <<"netflix", "dstv", "cinema", "movie", "game", "spotify">>],
    [cat |-> "Healthcare",
     keywords |-> <<"hospital", "pharmacy", "doctor", "clinic", "medical", "health">>],
    [cat |-> "Other", keywords |-> <<>>] >>

CategoryNames == {CATEGORIES[i].cat : i \in 1..Len(CATEGORIES)}

Keywords == UNION {{CATEGORIES[i].keywords[k] : k \in 1..Len(CATEGORIES[i].keywords)} :
                   i \in 1..Len(CATEGORIES)}

MatchThreshold == 70

\* a faulty variant: an equal score wins too
BetterOrEqualMatch(score, best_score) == score >= best_score /\ score > MatchThreshold

\* the if of the inner loop: a strictly better score above the threshold wins
BetterMatch(score, best_score) == score > best_score /\ score > MatchThreshold

RECURSIVE ScanKeywords(_, _, _, _, _)
\* for kw in keywords, from the k-th on; scores are those of the description
\* and best is [cat, score]
ScanKeywords(cat, keywords, k, scores, best) ==
    IF k > Len(keywords) THEN best
    ELSE LET score == scores[Lower(keywords[k])]
         IN  IF BetterMatch(score, best.score)
             THEN ScanKeywords(cat, keywords, k + 1, scores, [cat |-> cat, score |-> score])
             ELSE ScanKeywords(cat, keywords, k + 1, scores, best)

RECURSIVE ScanCategories(_, _, _)
\* for cat, keywords in CATEGORIES.items(), from the i-th on
ScanCategories(i, scores, best) ==
    IF i > Len(CATEGORIES) THEN best
    ELSE IF CATEGORIES[i].cat = "Other" THEN ScanCategories(i + 1, scores, best)
         ELSE ScanCategories(i + 1, scores,
                             ScanKeywords(CATEGORIES[i].cat, CATEGORIES[i].keywords, 1,
                                          scores, best))

\* categorize_transaction, given what fuzz.partial_ratio returns
CategorizeWith(ratio, d) ==
    ScanCategories(1, ratio[Lower(PyStr(d))], [cat |-> "Other", score |-> 0]).cat

categorize_transaction(d) == CategorizeWith(partial_ratio, d)

(***************************************************************************)
(* detect_anomalies.  The comparisons of the quotients are made on whole   *)
(* numbers: with n values of sum S and sum of squares Q,                   *)
(*    mean = S / n  and  std^2 = (n*Q - S*S) / (n * (n - 1)),              *)
(* Series.std() dividing by n - 1.  The amounts are floating-point         *)
(* numbers: the sum of amounts that are not whole is rounded, which leaves *)
(* the mean off by mean_error, a quantity below every difference between   *)
(* two amounts, and the deviations from it off by as much.                 *)
(***************************************************************************)
RECURSIVE SumSeq(_)
SumSeq(xs) == IF Len(xs) = 0 THEN 0 ELSE Head(xs) + SumSeq(Tail(xs))

Squares(xs) == [i \in 1..Len(xs) |-> xs[i] * xs[i]]

\* n * n * (divisor) * variance, for the divisor that StdDivisor gives
Spread(xs) == Len(xs) * SumSeq(Squares(xs)) - SumSeq(xs) * SumSeq(xs)

\* a faulty variant: ddof = 0
PopulationDivisor(n) == n

\* a faulty variant: ddof = -1
InflatedDivisor(n) == n + 1

\* the divisor of Series.std(): ddof = 1
StdDivisor(n) == n - 1

\* std is NaN for fewer values than two: every comparison with it is False
StdIsNaN(xs) == StdDivisor(Len(xs)) <= 0

\* std == 0: every amount is equal to the mean computed
StdIsZero(xs) == ~StdIsNaN(xs) /\ Spread(xs) = 0 /\ mean_error = 0

\* np.abs((x - mean) / std) > threshold, std a positive number.  When the
\* amounts are equal, every deviation is mean_error and std is
\* |mean_error| * sqrt(n / divisor).
ZScoreExceeds(xs, x, t) ==
    LET n == Len(xs)
        d == n * x - SumSeq(xs)
    IN  IF t < 0 THEN TRUE
        ELSE IF Spread(xs) = 0 THEN StdDivisor(n) > t * t * n
             ELSE d * d * StdDivisor(n) > t * t * n * Spread(xs)

detect_anomalies(xs, t) ==
    IF StdIsZero(xs) THEN [i \in 1..Len(xs) |-> FALSE]
    ELSE [i \in 1..Len(xs) |-> ~StdIsNaN(xs) /\ ZScoreExceeds(xs, xs[i], t)]

DefaultThreshold == 3

(***************************************************************************)
(* calculate_net_flow                                                      *)
(***************************************************************************)
Abs(x) == IF x < 0 THEN 0 - x ELSE x

Positive(x) == x > 0
Negative(x) == x < 0

Income(xs) ==
    SumSeq(SelectSeqIdx(xs, [i \in 1..Len(xs) |-> Positive(xs[i])], 1))

\* a faulty variant: abs() left out
SignedExpenses(xs) ==
    SumSeq(SelectSeqIdx(xs, [i \in 1..Len(xs) |-> Negative(xs[i])], 1))

Expenses(xs) ==
    Abs(SumSeq(SelectSeqIdx(xs, [i \in 1..Len(xs) |-> Negative(xs[i])], 1)))

\* a quotient, kept as numerator and denominator
Ratio(num, den) == [num |-> num, den |-> den]

SavingsRate(net, income) == IF income > 0 THEN Ratio(net * 100, income) ELSE Ratio(0, 1)

calculate_net_flow(xs) ==
    LET income   == Income(xs)
        expenses == Expenses(xs)
        net      == income - expenses
    IN  [status |-> "ok", income |-> income, expenses |-> expenses, net |-> net,
         savings_rate |-> SavingsRate(net, income)]

(***************************************************************************)
(* calculate_category_stats.  Amounts are whole numbers, so a Total is its *)
(* own rounding to 2 decimals; an Average is kept in hundredths.           *)
(***************************************************************************)
\* round(100 * num / den) to the nearest whole number, halves to even
RoundedHundredths(num, den) ==
    LET q == (100 * num) \div den
        r == (100 * num) % den
    IN  IF 2 * r < den THEN q
        ELSE IF 2 * r > den THEN q + 1
             ELSE IF q % 2 = 0 THEN q ELSE q + 1

GroupAmounts(cats, xs, c) ==
    SelectSeqIdx(xs, [i \in 1..Len(xs) |-> cats[i] = c], 1)

\* one row of the grouped table
CategoryRow(cats, xs, c) ==
    LET g == GroupAmounts(cats, xs, c)
    IN  [category |-> c, Total |-> SumSeq(g),
         Average |-> RoundedHundredths(SumSeq(g), Len(g)), Transactions |-> Len(g)]

\* a faulty variant: ascending=True
InAscendingOrder(a, b) == a.Total <= b.Total

\* sort_values('Total', ascending=False)
InSortOrder(a, b) == a.Total >= b.Total

\* The tables calculate_category_stats can return: one row per category that
\* occurs, in an order that sort_values can produce.  The sort is not a stable
\* one, so rows of equal Total may come in any order.
CategoryStatsResults(cats, xs) ==
    LET present == {cats[i] : i \in 1..Len(cats)}
        n       == Cardinality(present)
    IN  {[i \in 1..n |-> CategoryRow(cats, xs, order[i])] :
            order \in {o \in [1..n -> present] :
                         /\ \A i, j \in 1..n : i # j => o[i] # o[j]
                         /\ \A i \in 1..(n - 1) :
                              InSortOrder(CategoryRow(cats, xs, o[i]),
                                          CategoryRow(cats, xs, o[i + 1]))}}

(***************************************************************************)
(* calculate_monthly_stats.  A month is the number year * 100 + month.     *)
(***************************************************************************)
\* date.dt.to_period('M')
PeriodOf(d) == d.n \div 100

Pad2(n) == IF n < 10 THEN "0" \o NatToStr(n) ELSE NatToStr(n)

\* str(period): 'YYYY-MM'
PeriodStr(p) == NatToStr(p \div 100) \o "-" \o Pad2(p % 100)

\* date.dt.to_period('M').astype(str)
MonthOf(d) == PeriodStr(PeriodOf(d))

RECURSIVE SortedKeysDescending(_)
\* a faulty order: the latest month first
SortedKeysDescending(keys) ==
    IF keys = {} THEN <<>>
    ELSE LET most == CHOOSE k \in keys : \A j \in keys : k >= j
         IN  <<most>> \o SortedKeysDescending(keys \ {most})

RECURSIVE SortedKeys(_)
\* the group keys in the order groupby puts them: ascending
SortedKeys(keys) ==
    IF keys = {} THEN <<>>
    ELSE LET least == CHOOSE k \in keys : \A j \in keys : k <= j
         IN  <<least>> \o SortedKeys(keys \ {least})

\* one row of the grouped table
MonthRow(ds, xs, p) ==
    LET g == SelectSeqIdx(xs, [i \in 1..Len(xs) |-> PeriodOf(ds[i]) = p], 1)
    IN  [month |-> PeriodStr(p), Total |-> SumSeq(g),
         Average |-> RoundedHundredths(SumSeq(g), Len(g)), Count |-> Len(g)]

calculate_monthly_stats(ds, xs) ==
    LET order == SortedKeys({PeriodOf(ds[i]) : i \in 1..Len(ds)})
    IN  [status |-> "ok", table |-> [k \in 1..Len(order) |-> MonthRow(ds, xs, order[k])]]

(***************************************************************************)
(* The budget tab (src/app.py)                                             *)
(***************************************************************************)
Periods == {"All Time", "This Month", "Last Month"}

\* df['date'].max()
MaxDate(ds) ==
    CHOOSE d \in {ds[i] : i \in 1..Len(ds)} : \A i \in 1..Len(ds) : ds[i].n <= d.n

\* the month before: pd.DateOffset(months=1) taken off
PreviousPeriod(p) == IF p % 100 = 1 THEN (p - 100) + 11 ELSE p - 1

\* abs(df[mask & (df['amount'] < 0)]['amount'].sum()), mask the rows of month m
SpentIn(months, xs, m) ==
    Abs(SumSeq(SelectSeqIdx(xs, [i \in 1..Len(xs) |-> months[i] = m /\ Negative(xs[i])], 1)))

Spent(per, ds, months, xs) ==
    IF per = "This Month"
    THEN SpentIn(months, xs, PeriodStr(PeriodOf(MaxDate(ds))))
    ELSE IF per = "Last Month"
         THEN SpentIn(months, xs, PeriodStr(PreviousPeriod(PeriodOf(MaxDate(ds)))))
         ELSE Expenses(xs)

BudgetPercent(spent, b) ==
    IF b > 0 THEN Ratio(spent * 100, b)
    ELSE IF spent > 0 THEN Ratio(100, 1) ELSE Ratio(0, 1)

\* a faulty comparison: > in place of >=
MoreThan(q, k) == q.num > k * q.den

\* quotient >= k, for a quotient of positive denominator
AtLeast(q, k) == q.num >= k * q.den

BudgetStatus(percent) ==
    IF AtLeast(percent, 100) THEN "OVER BUDGET"
    ELSE IF AtLeast(percent, 80) THEN "Approaching Limit"
         ELSE "Within Budget"

\* the budget tab, from the inputs to the status
BudgetTracker(per, b, ds, months, xs) ==
    LET spent   == Spent(per, ds, months, xs)
        percent == BudgetPercent(spent, b)
    IN  [status |-> "ok", spent |-> spent, percent |-> percent,
         remaining |-> b - spent, status_msg |-> BudgetStatus(percent)]

(***************************************************************************)
(* Inputs                                                                  *)
(***************************************************************************)
\* all sequences over S of length at most n
SeqsUpTo(S, n) == UNION {[1..k -> S] : k \in 0..n}

\* the data rows of a statement, by field
StatementRows == {
    [tdate |-> Str("2024-01-15"), vdate |-> Str("2024-01-16"),
     desc |-> Str("Uber Trip Lagos"), narr |-> Str("POS"),
     debit |-> Str("1000"), credit |-> Str("0"), amount |-> Num(0 - 1000)],
    [tdate |-> Str("2024-02-01"), vdate |-> Str("2024-02-02"),
     desc |-> Str("Salary"), narr |-> Str("NIP"),
     debit |-> Str("--"), credit |-> Str("2,500"), amount |-> Num(2500)],
    [tdate |-> Str("2024-03-05"), vdate |-> Str("2024-03-06"),
     desc |-> Str("Netflix"), narr |-> NaN,
     debit |-> Str("0"), credit |-> Str("1000"), amount |-> Str("0")],
    [tdate |-> Str("2024-03-09"), vdate |-> Str("pending"),
     desc |-> Str("ATM Withdrawal"), narr |-> Str("ATM"),
     debit |-> Str("5--"), credit |-> Str("abc"), amount |-> Num(0)],
    [tdate |-> Str("2024-02-30"), vdate |-> Str("2024-03-01"),
     desc |-> Str("Card fee"), narr |-> Str("FEE"),
     debit |-> NaN, credit |-> NaN, amount |-> Num(50)],
    [tdate |-> Str("2024-04-10"), vdate |-> NaN,
     desc |-> NaN, narr |-> Str("NIP"),
     debit |-> Str("1,200.00"), credit |-> Str(" "), amount |-> NaN] }

\* the column labels of a statement, with the field each column holds
StatementLabels == <<
    [label |-> "Trans. Date", field |-> "tdate"],
    [label |-> "Value Date", field |-> "vdate"],
    [label |-> "Date", field |-> "vdate"],
    [label |-> "Description", field |-> "desc"],
    [label |-> "Narration", field |-> "narr"],
    [label |-> "Debit", field |-> "debit"],
    [label |-> "Credit", field |-> "credit"],
    [label |-> "Amount", field |-> "amount"] >>

\* the labels the full pipeline is run on
PipelineLabels == {"Trans. Date", "Description", "Debit", "Credit", "Amount"}

MaxRows == 2

\* a header: the labels picked by keep, in the order of StatementLabels
Header(keep) ==
    SelectSeqIdx(StatementLabels, [i \in 1..Len(StatementLabels) |-> i \in keep], 1)

HeaderCells(h) == [i \in 1..Len(h) |-> Str(h[i].label)]

DataCells(h, row) == [i \in 1..Len(h) |-> row[h[i].field]]

\* the first line of a statement that starts with a title: read_csv names the
\* columns after it
TitleCells(h) ==
    [i \in 1..Len(h) |-> IF i = 1 THEN Str("Account Statement")
                         ELSE Str("Unnamed: " \o IntToStr(i - 1))]

JunkCells(h, j) == [i \in 1..Len(h) |-> IF i = 1 THEN Str("Page " \o IntToStr(j)) ELSE NaN]

\* the header is the first line of the file
DirectTable(h, rows) ==
    DataFrame(HeaderCells(h), [r \in 1..Len(rows) |-> DataCells(h, rows[r])])

\* the header follows a title line and a junk line
PreambleTable(h, rows) ==
    DataFrame(TitleCells(h),
              <<JunkCells(h, 1), HeaderCells(h)>>
                  \o [r \in 1..Len(rows) |-> DataCells(h, rows[r])])

Tables(labels) ==
    LET keeps == SUBSET {i \in 1..Len(StatementLabels) : StatementLabels[i].label \in labels}
    IN  {DirectTable(Header(k), rows) : k \in keeps, rows \in SeqsUpTo(StatementRows, MaxRows)}
        \cup {PreambleTable(Header(k), rows) :
                 k \in keeps \ {{}}, rows \in SeqsUpTo(StatementRows, MaxRows)}

(***************************************************************************)
(* The pipeline: process_data and the page (src/app.py)                    *)
(***************************************************************************)
\* the scores of a description: those of the keywords in hits, 0 elsewhere
ScoreTable(hits) == [k \in Keywords |-> IF k \in DOMAIN hits THEN hits[k] ELSE 0]

NoHits == [k \in {} |-> 0]

\* the descriptions of the statement rows, as categorize_transaction keys them
StatementDescriptions == {Lower(PyStr(r.desc)) : r \in StatementRows}

PipelineScores ==
    {[d \in StatementDescriptions |-> ScoreTable(NoHits)],
     [d \in StatementDescriptions |->
         IF d = "uber trip lagos" THEN ScoreTable([k \in {"ubereats", "uber"} |-> 100])
         ELSE IF d = "salary" THEN ScoreTable([k \in {"salary"} |-> 100])
         ELSE ScoreTable(NoHits)]}

Init ==
    /\ mapping = None
    /\ pc = "uploaded"
    /\ df_raw \in Tables(PipelineLabels)
    /\ manual_mode \in BOOLEAN
    /\ partial_ratio = None
    /\ df_clean = None
    /\ category = <<>> /\ is_anomaly = <<>> /\ month = <<>>
    /\ screen = "upload"
    /\ net_flow = None /\ cat_stats = None
    /\ m_stats = None /\ budget_view = None
    /\ NoBudgetInputs
    /\ description = None /\ amounts = <<>> /\ categories = <<>>
    /\ threshold = DefaultThreshold
    /\ header_out = None
    /\ mean_error = 0

\* in manual mode a leading unnamed column of the table read is cut off
ReadRaw(df, manual) ==
    IF manual /\ Len(df.columns) > 0 /\ Contains(Lower(PyStr(df.columns[1])), "unnamed")
    THEN KeepColumns(df, [i \in 1..Len(df.columns) |-> i # 1])
    ELSE df

CleanColumn(name) ==
    [r \in 1..Len(df_clean.rows) |-> df_clean.rows[r][ColumnIndex(df_clean.columns, name)]]

\* a faulty variant: only the columns are looked at
NoColumns(df) == Len(df.columns) = 0

\* df_clean.empty
IsEmpty(df) == Len(df.rows) = 0 \/ Len(df.columns) = 0

\* process_data, up to the return of load_and_clean_expenses
Load ==
    /\ pc = "uploaded"
    /\ df_clean' = load_and_clean_expenses(ReadRaw(df_raw, manual_mode), manual_mode)
    /\ pc' = IF df_clean'.status = "error" THEN "raised"
             ELSE IF IsEmpty(df_clean') THEN "processed" ELSE "loaded"
    /\ UNCHANGED <<df_raw, manual_mode, category, is_anomaly, month, screen, net_flow,
                   cat_stats, partial_ratio, description, amounts, categories,
                   threshold, header_out, mean_error,
                   dates, m_stats, budget, period, budget_view, mapping>>

\* df_clean['category'] = df_clean['description'].apply(categorize_transaction);
\* the scores are what the library returns for the descriptions
Categorize ==
    /\ pc = "loaded"
    /\ UNCHANGED <<df_raw, manual_mode, df_clean, is_anomaly, month, screen, net_flow,
                   cat_stats, description, amounts, categories, threshold, header_out, mean_error,
                   dates, m_stats, budget, period, budget_view, mapping>>
    /\ partial_ratio' \in PipelineScores
    /\ category' = [r \in 1..Len(df_clean.rows) |->
                       CategorizeWith(partial_ratio', CleanColumn("description")[r])]
    /\ pc' = "categorized"

AmountValues(cells) == [r \in 1..Len(cells) |-> cells[r].n]

AllNumeric(cells) == \A r \in 1..Len(cells) : cells[r].t = "num"

\* df_clean['is_anomaly'] = detect_anomalies(df_clean); the mean of a column
\* of texts raises
DetectAnomalies ==
    /\ pc = "categorized"
    /\ IF AllNumeric(CleanColumn("amount"))
       THEN /\ is_anomaly' = detect_anomalies(AmountValues(CleanColumn("amount")),
                                              DefaultThreshold)
            /\ pc' = "flagged"
       ELSE /\ is_anomaly' = is_anomaly
            /\ pc' = "raised"
    /\ UNCHANGED <<df_raw, manual_mode, df_clean, category, month, screen, net_flow,
                   cat_stats, partial_ratio, description, amounts, categories,
                   threshold, header_out, mean_error,
                   dates, m_stats, budget, period, budget_view, mapping>>

\* df_clean['month'] = ...; process_data returns
AssignMonth ==
    /\ pc = "flagged"
    /\ month' = [r \in 1..Len(df_clean.rows) |-> MonthOf(CleanColumn("date")[r])]
    /\ pc' = "processed"
    /\ UNCHANGED <<df_raw, manual_mode, df_clean, category, is_anomaly, screen, net_flow,
                   cat_stats, partial_ratio, description, amounts, categories,
                   threshold, header_out, mean_error,
                   dates, m_stats, budget, period, budget_view, mapping>>

\* except Exception: st.error(...)
ShowError ==
    /\ pc = "raised"
    /\ screen' = "error"
    /\ pc' = "done"
    /\ UNCHANGED <<df_raw, manual_mode, df_clean, category, is_anomaly, month, net_flow,
                   cat_stats, partial_ratio, description, amounts, categories,
                   threshold, header_out, mean_error,
                   dates, m_stats, budget, period, budget_view, mapping>>

\* if df.empty: st.warning(...); st.stop()
ShowWarning ==
    /\ pc = "processed"
    /\ IsEmpty(df_clean)
    /\ screen' = "warning"
    /\ pc' = "done"
    /\ UNCHANGED <<df_raw, manual_mode, df_clean, category, is_anomaly, month, net_flow,
                   cat_stats, partial_ratio, description, amounts, categories,
                   threshold, header_out, mean_error,
                   dates, m_stats, budget, period, budget_view, mapping>>

\* the dashboard: the financial overview and the tabs
ShowDashboard ==
    /\ pc = "processed"
    /\ ~IsEmpty(df_clean)
    /\ LET xs == AmountValues(CleanColumn("amount"))
           ds == CleanColumn("date")
       IN  /\ net_flow' = calculate_net_flow(xs)
           /\ \E result \in CategoryStatsResults(category, xs) :
                  cat_stats' = [status |-> "ok", table |-> result]
           /\ m_stats' = calculate_monthly_stats(ds, xs)
           /\ budget_view' = BudgetTracker(period, budget, ds, month, xs)
    /\ screen' = "dashboard"
    /\ pc' = "done"
    /\ UNCHANGED <<df_raw, manual_mode, df_clean, category, is_anomaly, month,
                   partial_ratio, description, amounts, categories,
                   threshold, header_out, mean_error, dates, budget, period, mapping>>

Next ==
    \/ Load
    \/ Categorize
    \/ DetectAnomalies
    \/ AssignMonth
    \/ ShowError
    \/ ShowWarning
    \/ ShowDashboard

Spec == Init /\ [][Next]_vars

\* The page from the start: a file is uploaded, then the script runs to its
\* end, no step that can be taken being put off for ever.
InitPage ==
    /\ mapping = None
    /\ pc = "start"
    /\ df_raw = None /\ manual_mode = FALSE
    /\ partial_ratio = None
    /\ df_clean = None
    /\ category = <<>> /\ is_anomaly = <<>> /\ month = <<>>
    /\ screen = "upload"
    /\ net_flow = None /\ cat_stats = None
    /\ m_stats = None /\ budget_view = None
    /\ NoBudgetInputs
    /\ description = None /\ amounts = <<>> /\ categories = <<>>
    /\ threshold = DefaultThreshold
    /\ header_out = None
    /\ mean_error = 0

\* uploaded = st.file_uploader(...), with the header setting of the sidebar
Upload ==
    /\ pc = "start"
    /\ df_raw' \in Tables(PipelineLabels)
    /\ manual_mode' \in BOOLEAN
    /\ pc' = "uploaded"
    /\ UNCHANGED <<df_clean, category, is_anomaly, month, screen, net_flow,
                   cat_stats, partial_ratio, description, amounts, categories,
                   threshold, header_out, mean_error,
                   dates, m_stats, budget, period, budget_view, mapping>>

NextPage ==
    \/ Upload
    \/ Next

\* the script runs on once process_data has returned: with an empty table
\* the warning is shown and the run stops there
FairSpec == InitPage /\ [][NextPage]_vars /\ WF_vars(ShowWarning)

(***************************************************************************)
(* load_and_clean_expenses on its own, on statements whose labels collide  *)
(***************************************************************************)
LoaderLabels == {"Trans. Date", "Date", "Description", "Narration", "Debit"}

Idle ==
    /\ df_clean = None
    /\ category = <<>> /\ is_anomaly = <<>> /\ month = <<>>
    /\ screen = "upload"
    /\ net_flow = None /\ cat_stats = None
    /\ m_stats = None /\ budget_view = None
    /\ header_out = None

InitLoad ==
    /\ mapping = None
    /\ pc = "call"
    /\ df_raw \in Tables(LoaderLabels)
    /\ manual_mode \in BOOLEAN
    /\ partial_ratio = None /\ description = None
    /\ amounts = <<>> /\ categories = <<>> /\ threshold = DefaultThreshold
    /\ mean_error = 0
    /\ NoBudgetInputs
    /\ Idle

\* load_and_clean_expenses(df_override=df_raw, skip_header_detection=manual_mode)
LoadAndClean ==
    /\ pc = "call"
    /\ df_clean' = load_and_clean_expenses(df_raw, manual_mode)
    /\ pc' = "returned"
    /\ UNCHANGED <<df_raw, manual_mode, category, is_anomaly, month, screen, net_flow,
                   cat_stats, partial_ratio, description, amounts, categories,
                   threshold, header_out, mean_error,
                   dates, m_stats, budget, period, budget_view, mapping>>

NextLoad == LoadAndClean

SpecLoad == InitLoad /\ [][NextLoad]_vars

(***************************************************************************)
(* load_and_clean_expenses on statements whose labels probe the mapping    *)
(***************************************************************************)
MaxFragments == 4

RoleFragments == <<"Trans", "Date", "Value", "Desc", "Debit", "Credit">>

\* labels made of up to MaxFragments different fragments, in any order
FragmentLabels ==
    UNION {{JoinStr([i \in 1..k |-> RoleFragments[f[i]]], " ") :
               f \in {g \in [1..k -> 1..Len(RoleFragments)] :
                        \A i, j \in 1..k : i # j => g[i] # g[j]}} : k \in 1..MaxFragments}

WholeLabels ==
    {"Narration", "Transaction Details", "Particulars (?)", "TransDate",
     " TRANS. DATE ", "Amount", "Date", "Balance"}

\* a statement of one column
ProbeTables ==
    {DataFrame(<<Str(l)>>, << <<Str("2024-01-15")>> >>) : l \in FragmentLabels \cup WholeLabels}

DateLabels ==
    {"Trans. Date", "Transaction Date", "Value Date", "Value. Date", "Trans Value Date", "Date"}

DateParts ==
    {<<d>> : d \in DateLabels}
        \cup {<<p[1], p[2]>> : p \in {q \in DateLabels \X DateLabels : q[1] # q[2]}}

MoneyParts == {<<"Debit">>, <<"Amount">>, <<"Debit", "Amount">>, <<"Amount", "Credit">>}

\* the cell of the one row of a statement, by the position and label of its column
RoleCell(i, label) ==
    IF label = "Description" THEN Str("Uber Trip Lagos")
    ELSE IF label = "Debit" THEN Str("1000")
    ELSE IF label = "Credit" THEN Str("300")
    ELSE IF label = "Amount" THEN Num(0 - 70)
    ELSE IF i = 1 THEN Str("2024-01-15") ELSE Str("2024-01-16")

\* a statement of one row: one or two date columns, a description, the money
RoleTables ==
    {LET labels == d \o <<"Description">> \o m
     IN  DataFrame([i \in 1..Len(labels) |-> Str(labels[i])],
                   << [i \in 1..Len(labels) |-> RoleCell(i, labels[i])] >>) :
        d \in DateParts, m \in MoneyParts}

InitRole ==
    /\ mapping = None
    /\ pc = "call"
    /\ df_raw \in ProbeTables \cup RoleTables
    /\ manual_mode = TRUE
    /\ partial_ratio = None /\ description = None
    /\ amounts = <<>> /\ categories = <<>> /\ threshold = DefaultThreshold
    /\ mean_error = 0
    /\ NoBudgetInputs
    /\ Idle

\* load_and_clean_expenses(df_override=df_raw, skip_header_detection=True),
\* with the mapping it builds on the way
LoadMapped ==
    /\ pc = "call"
    /\ mapping' = Mapping(BeforeMapping(df_raw).columns)
    /\ df_clean' = load_and_clean_expenses(df_raw, manual_mode)
    /\ pc' = "returned"
    /\ UNCHANGED <<df_raw, manual_mode, category, is_anomaly, month, screen, net_flow,
                   cat_stats, partial_ratio, description, amounts, categories,
                   threshold, header_out, mean_error,
                   dates, m_stats, budget, period, budget_view>>

NextRole == LoadMapped

SpecRole == InitRole /\ [][NextRole]_vars

(***************************************************************************)
(* detect_and_skip_header on its own                                       *)
(***************************************************************************)
MaxJunkRows == 21
MaxBodyRows == 2

\* the rows a statement is made of: titles, the header, transactions
BodyRows == {
    <<Str("Trans. Date"), Str("Description"), Str("Debit"), Str("Credit")>>,
    <<Str("2024-01-15"), Str("Uber Trip Lagos"), Str("1000"), Str("--")>>,
    <<Str("2024-01-16"), Str("Transfer to savings"), Str("--"), Str("500")>>,
    <<Str("2024-01-17"), Str("POS Purchase"), Num(200), NaN>>,
    <<Str("Opening Balance"), NaN, NaN, Str("10,000")>> }

JunkRow(j) == <<Str("Page " \o IntToStr(j)), NaN, NaN, NaN>>

TitleColumns == <<Str("Account Statement"), Str("Unnamed: 1"), Str("Unnamed: 2"),
                  Str("Unnamed: 3")>>

HeaderTables ==
    {DataFrame(TitleColumns, [j \in 1..k |-> JunkRow(j)] \o body) :
        k \in 0..MaxJunkRows, body \in SeqsUpTo(BodyRows, MaxBodyRows)}

InitHeader ==
    /\ mapping = None
    /\ pc = "call"
    /\ df_raw \in HeaderTables
    /\ manual_mode = FALSE
    /\ partial_ratio = None /\ description = None
    /\ amounts = <<>> /\ categories = <<>> /\ threshold = DefaultThreshold
    /\ mean_error = 0
    /\ NoBudgetInputs
    /\ Idle

DetectHeader ==
    /\ pc = "call"
    /\ header_out' = detect_and_skip_header(df_raw)
    /\ pc' = "returned"
    /\ UNCHANGED <<df_raw, manual_mode, df_clean, category, is_anomaly, month, screen,
                   net_flow, cat_stats, partial_ratio, description, amounts, categories,
                   threshold, mean_error,
                   dates, m_stats, budget, period, budget_view, mapping>>

NextHeader == DetectHeader

SpecHeader == InitHeader /\ [][NextHeader]_vars

(***************************************************************************)
(* categorize_transaction on its own: the scores of the description are    *)
(* any that the library may return, at most MaxHits of them not 0          *)
(***************************************************************************)
MaxHits == 2

ScoreValues == {70, 71, 100}

\* the keywords that may score: the first and the last of the first category,
\* of the last and of the two that list 'dstv', and 'dstv'
ProbeCategories == {"Food & Dining", "Utilities", "Entertainment", "Healthcare"}

ProbeKeywords ==
    {"dstv"} \cup UNION {{CATEGORIES[i].keywords[1],
                          CATEGORIES[i].keywords[Len(CATEGORIES[i].keywords)]} :
                         i \in {j \in 1..Len(CATEGORIES) :
                                    CATEGORIES[j].cat \in ProbeCategories}}

ScoreTables ==
    {ScoreTable(hits) :
        hits \in UNION {[H -> ScoreValues] :
                           H \in {G \in SUBSET ProbeKeywords : Cardinality(G) <= MaxHits}}}

Descriptions == {Str("DSTV Subscription Lagos"), Num(2024)}

InitCat ==
    /\ mapping = None
    /\ pc = "call"
    /\ description \in Descriptions
    /\ partial_ratio \in {[d \in {Lower(PyStr(description))} |-> t] : t \in ScoreTables}
    /\ df_raw = None /\ manual_mode = FALSE
    /\ amounts = <<>> /\ categories = <<>> /\ threshold = DefaultThreshold
    /\ mean_error = 0
    /\ NoBudgetInputs
    /\ Idle

CategorizeOne ==
    /\ pc = "call"
    /\ category' = <<categorize_transaction(description)>>
    /\ pc' = "returned"
    /\ UNCHANGED <<df_raw, manual_mode, df_clean, is_anomaly, month, screen, net_flow,
                   cat_stats, partial_ratio, description, amounts, categories,
                   threshold, header_out, mean_error,
                   dates, m_stats, budget, period, budget_view, mapping>>

NextCat == CategorizeOne

SpecCat == InitCat /\ [][NextCat]_vars

(***************************************************************************)
(* detect_anomalies on its own                                             *)
(***************************************************************************)
MaxTx == 11

\* amounts, in tenths
AnomalyAmounts == {1, 4, 5}

\* the sum and the mean of xs may be rounded: for at least three amounts, one
\* of them not a multiple of a half (two equal amounts add up, and halve,
\* without rounding)
Inexact(xs) == Len(xs) >= 3 /\ \E i \in 1..Len(xs) : xs[i] % 5 # 0

MeanErrors(xs) == IF Inexact(xs) THEN {0 - 1, 0, 1} ELSE {0}

Thresholds == {0 - 1, 0, DefaultThreshold}

\* a copies of x, then b copies of y, then c copies of z
Runs(a, x, b, y, c, z) ==
    [i \in 1..(a + b + c) |-> IF i <= a THEN x ELSE IF i <= a + b THEN y ELSE z]

AnomalyInputs ==
    {Runs(a, x, b, y, c, z) :
        a \in 0..MaxTx, b \in 0..MaxTx, c \in 0..MaxTx,
        x \in AnomalyAmounts, y \in AnomalyAmounts, z \in AnomalyAmounts}

InitAnomaly ==
    /\ mapping = None
    /\ pc = "call"
    /\ amounts \in {xs \in AnomalyInputs : Len(xs) <= MaxTx}
    /\ threshold \in Thresholds
    /\ mean_error \in MeanErrors(amounts)
    /\ NoBudgetInputs
    /\ df_raw = None /\ manual_mode = FALSE
    /\ partial_ratio = None /\ description = None /\ categories = <<>>
    /\ Idle

DetectOnly ==
    /\ pc = "call"
    /\ is_anomaly' = detect_anomalies(amounts, threshold)
    /\ pc' = "returned"
    /\ UNCHANGED <<df_raw, manual_mode, df_clean, category, month, screen, net_flow,
                   cat_stats, partial_ratio, description, amounts, categories,
                   threshold, header_out, mean_error,
                   dates, m_stats, budget, period, budget_view, mapping>>

NextAnomaly == DetectOnly

SpecAnomaly == InitAnomaly /\ [][NextAnomaly]_vars

(***************************************************************************)
(* The aggregates on their own                                             *)
(***************************************************************************)
MaxAggTx == 3

AggCategories == {"Income", "Food & Dining", "Transport"}

AggAmounts == {50000, 0 - 12000, 0 - 8000, 4000}

AggInputs == SeqsUpTo(AggCategories \X AggAmounts, MaxAggTx)

InitAgg ==
    /\ mapping = None
    /\ pc = "call"
    /\ \E txs \in AggInputs :
          /\ categories = [i \in 1..Len(txs) |-> txs[i][1]]
          /\ amounts = [i \in 1..Len(txs) |-> txs[i][2]]
    /\ threshold = DefaultThreshold /\ mean_error = 0
    /\ NoBudgetInputs
    /\ df_raw = None /\ manual_mode = FALSE
    /\ partial_ratio = None /\ description = None
    /\ Idle

CalculateNetFlow ==
    /\ pc = "call"
    /\ net_flow = None
    /\ net_flow' = calculate_net_flow(amounts)
    /\ UNCHANGED <<pc, df_raw, manual_mode, df_clean, category, is_anomaly, month, screen,
                   cat_stats, partial_ratio, description, amounts, categories,
                   threshold, header_out, mean_error,
                   dates, m_stats, budget, period, budget_view, mapping>>

CalculateCategoryStats ==
    /\ pc = "call"
    /\ cat_stats = None
    /\ \E result \in CategoryStatsResults(categories, amounts) :
          cat_stats' = [status |-> "ok", table |-> result]
    /\ UNCHANGED <<pc, df_raw, manual_mode, df_clean, category, is_anomaly, month, screen,
                   net_flow, partial_ratio, description, amounts, categories,
                   threshold, header_out, mean_error,
                   dates, m_stats, budget, period, budget_view, mapping>>

NextAgg ==
    \/ CalculateNetFlow
    \/ CalculateCategoryStats

SpecAgg == InitAgg /\ [][NextAgg]_vars

(***************************************************************************)
(* The monthly table and the budget tab on their own                       *)
(***************************************************************************)
MaxDatedTx == 3

DatedDays == {Date(2023, 12, 31), Date(2024, 1, 15), Date(2024, 2, 1)}

DatedAmounts == {0 - 1000, 0 - 250, 0 - 2, 800}

\* the values the budget widget is set to
Budgets == {0 - 5000, 0, 1000, 1250, 2000}

\* the dashboard is only drawn for a table that has rows
DatedInputs == SeqsUpTo(DatedDays \X DatedAmounts, MaxDatedTx) \ {<<>>}

InitDated ==
    /\ mapping = None
    /\ pc = "call"
    /\ \E txs \in DatedInputs :
          /\ dates = [i \in 1..Len(txs) |-> txs[i][1]]
          /\ amounts = [i \in 1..Len(txs) |-> txs[i][2]]
          /\ month = [i \in 1..Len(txs) |-> MonthOf(txs[i][1])]
    /\ budget = DefaultBudget /\ period = DefaultPeriod
    /\ threshold = DefaultThreshold /\ mean_error = 0
    /\ df_raw = None /\ manual_mode = FALSE
    /\ partial_ratio = None /\ description = None /\ categories = <<>>
    /\ df_clean = None /\ category = <<>> /\ is_anomaly = <<>> /\ screen = "upload"
    /\ net_flow = None /\ cat_stats = None /\ header_out = None
    /\ m_stats = None /\ budget_view = None

CalculateMonthlyStats ==
    /\ pc = "call"
    /\ m_stats' = calculate_monthly_stats(dates, amounts)
    /\ pc' = "monthly"
    /\ UNCHANGED <<df_raw, manual_mode, df_clean, category, is_anomaly, month, screen,
                   net_flow, cat_stats, partial_ratio, description, amounts, categories,
                   threshold, header_out, mean_error,
                   dates, budget, period, budget_view, mapping>>

\* the budget tab, drawn with the widgets set to b and per
TrackBudget ==
    /\ pc = "monthly"
    /\ \E b \in Budgets, per \in Periods :
          /\ budget' = b
          /\ period' = per
          /\ budget_view' = BudgetTracker(per, b, dates, month, amounts)
    /\ pc' = "done"
    /\ UNCHANGED <<df_raw, manual_mode, df_clean, category, is_anomaly, month, screen,
                   net_flow, cat_stats, partial_ratio, description, amounts, categories,
                   threshold, header_out, mean_error,
                   dates, m_stats, mapping>>

NextDated ==
    \/ CalculateMonthlyStats
    \/ TrackBudget

SpecDated == InitDated /\ [][NextDated]_vars

(***************************************************************************)
(* The table load_and_clean_expenses returns                               *)
(***************************************************************************)
\* the cell of the k-th returned row in the column called name
CleanCell(k, name) == df_clean.rows[k][ColumnIndex(df_clean.columns, name)]

\* a cell that is the number zero or a text that reads as zero
DenotesZero(c) ==
    \/ c.t = "num" /\ c.n = 0
    \/ c.t = "str" /\ PyFloat(c.s).ok /\ PyFloat(c.s).v = 0

NonEmptyText(c) == c.t = "str" /\ c.s # ""

ValidDate(c) == c.t = "date"

\* C1: every row of the table load_and_clean_expenses returns has an amount
\* that is not zero, a description that is not empty and a valid date,
\* whichever way the amount column was obtained (debit and credit, one of
\* them, or an 'amount' column taken as it is).
C1_EveryReturnedRowIsClean ==
    df_clean.status = "ok" =>
        \A k \in 1..Len(df_clean.rows) :
            /\ ~DenotesZero(CleanCell(k, "amount"))
            /\ NonEmptyText(CleanCell(k, "description"))
            /\ ValidDate(CleanCell(k, "date"))

\* the statement as the loader reads it: below a title the header is found
\* by the automatic detection, otherwise it is the labels of the table
UnderTitle ==
    /\ ~manual_mode
    /\ Len(df_raw.columns) > 0
    /\ df_raw.columns[1] = Str("Account Statement")

SourceHeader == IF UnderTitle THEN df_raw.rows[2] ELSE df_raw.columns

SourceRows ==
    IF UnderTitle THEN SubSeq(df_raw.rows, 3, Len(df_raw.rows)) ELSE df_raw.rows

HasLabel(label) == \E i \in 1..Len(SourceHeader) : SourceHeader[i] = Str(label)

SourceCell(r, label) ==
    SourceRows[r][CHOOSE i \in 1..Len(SourceHeader) : SourceHeader[i] = Str(label)]

\* the parsed debit cell of a source row, 0 without a debit column
DebitValue(r) ==
    IF ~HasLabel("Debit") THEN 0
    ELSE IF HasLabel("Credit") THEN ParseBothCell(SourceCell(r, "Debit"))
         ELSE ParseDebitOnlyCell(SourceCell(r, "Debit"))

\* the parsed credit cell of a source row, 0 without a credit column
CreditValue(r) ==
    IF ~HasLabel("Credit") THEN 0
    ELSE IF HasLabel("Debit") THEN ParseBothCell(SourceCell(r, "Credit"))
         ELSE ParseCreditOnlyCell(SourceCell(r, "Credit"))

\* the k-th returned row comes from the r-th source row
ComesFrom(k, r) ==
    /\ CleanCell(k, "description") = SourceCell(r, "Description")
    /\ CleanCell(k, "date") = ToDatetime(SourceCell(r, "Trans. Date"))

AmountOf(text) ==
    {CleanCell(k, "amount") :
        k \in {j \in 1..Len(df_clean.rows) : CleanCell(j, "description") = Str(text)}}

\* C2: with a debit or a credit column mapped, the amount of every returned
\* row is the parsed credit minus the parsed debit of the row it comes from,
\* an absent column counting as 0; so debit 1000 and credit 0 give -1000,
\* debit 0 and credit 1000 give +1000, debit '--' and credit '2,500' give +2500.
C2_AmountIsCreditMinusDebit ==
    (df_clean.status = "ok" /\ (HasLabel("Debit") \/ HasLabel("Credit"))) =>
        /\ \A k \in 1..Len(df_clean.rows) :
              \E r \in 1..Len(SourceRows) :
                  /\ ComesFrom(k, r)
                  /\ CleanCell(k, "amount") = Num(CreditValue(r) - DebitValue(r))
        /\ (HasLabel("Debit") /\ HasLabel("Credit")) =>
              /\ AmountOf("Uber Trip Lagos") \subseteq {Num(0 - 1000)}
              /\ AmountOf("Netflix") \subseteq {Num(1000)}
              /\ AmountOf("Salary") \subseteq {Num(2500)}

\* debit '--' with credit '2,500' and debit 1000 with credit 0, both returned
C2_Witness ==
    /\ df_clean.status = "ok"
    /\ HasLabel("Debit") /\ HasLabel("Credit")
    /\ AmountOf("Salary") = {Num(2500)}
    /\ AmountOf("Uber Trip Lagos") = {Num(0 - 1000)}

\* the table after the column mapping and the reconciliation of the amount
Reconciled ==
    LET read == ReadRaw(df_raw, manual_mode)
        df   == IF manual_mode THEN read ELSE detect_and_skip_header(read)
    IN  ReconcileAmount(PrepareColumns(df))

Labelled(cols, name) == \E i \in 1..Len(cols) : cols[i] = name

MissingRequired(cols) ==
    ~Labelled(cols, "date") \/ ~Labelled(cols, "description") \/ ~Labelled(cols, "amount")

\* load_and_clean_expenses has just returned or raised
JustLoaded ==
    /\ pc \in {"raised", "loaded", "processed"}
    /\ category = <<>>

SchemaError ==
    /\ df_clean.status = "error" /\ df_clean.error = "SchemaError"
    /\ df_clean.rows = <<>> /\ df_clean.columns = <<>>

\* the pipeline went no further than the load
NothingComputed ==
    /\ pc \in {"raised", "done"}
    /\ category = <<>> /\ is_anomaly = <<>> /\ month = <<>>
    /\ net_flow = None /\ cat_stats = None
    /\ screen \in {"upload", "error"}

\* C3: when a required column (date, description, amount) is missing after the
\* column mapping and the reconciliation of the amount, load_and_clean_expenses
\* raises a schema error that names the columns found and the columns required,
\* returns no table, and the pipeline goes no further; a table that is returned
\* has the three columns.
C3_MissingColumnIsSchemaError ==
    /\ JustLoaded =>
          LET stage == Reconciled
          IN  (stage.status = "ok" /\ MissingRequired(stage.columns)) =>
                  /\ SchemaError
                  /\ df_clean.required = <<"date", "description", "amount">>
                  /\ df_clean.available = stage.columns
    /\ SchemaError => NothingComputed
    /\ df_clean.status = "ok" => ~MissingRequired(df_clean.columns)

\* a statement with a date column but no amount column, reported on the page
C3_Witness ==
    /\ pc = "done" /\ screen = "error"
    /\ df_clean.status = "error" /\ df_clean.error = "SchemaError"
    /\ Labelled(df_clean.available, "date")
    /\ ~Labelled(df_clean.available, "amount")
    /\ Len(SourceRows) > 0

\* C4: load_and_clean_expenses has two outcomes only: the schema error, or a
\* table with exactly the columns date, description and amount, each once;
\* also when several source columns map to one role, such as 'description'
\* with 'narration', or 'trans date' with 'date'.
C4_SchemaErrorOrThreeColumns ==
    pc = "returned" =>
        \/ df_clean.status = "error" /\ df_clean.error = "SchemaError"
        \/ df_clean.status = "ok" /\ df_clean.columns = <<"date", "description", "amount">>

(***************************************************************************)
(* The aggregates                                                          *)
(***************************************************************************)
\* the categories of the table calculate_category_stats returned, in its order
StatsOrder == [i \in 1..Len(cat_stats.table) |-> cat_stats.table[i].category]

StatsTotals == {<<cat_stats.table[i].category, cat_stats.table[i].Total>> :
                   i \in 1..Len(cat_stats.table)}

\* Income totals 50000, Food -12000 and Transport -8000
ExampleTotals ==
    /\ cat_stats.status = "ok"
    /\ StatsTotals = {<<"Income", 50000>>, <<"Food & Dining", 0 - 12000>>,
                      <<"Transport", 0 - 8000>>}

\* C5 as stated: for the totals Income 50000, Food -12000 and Transport -8000
\* calculate_category_stats returns the order Income, Food, Transport.
C5_OrderIncomeFoodTransport ==
    ExampleTotals => StatsOrder = <<"Income", "Food & Dining", "Transport">>

\* C5, amended: for those totals the order is Income, Transport, Food, the
\* order of every returned table being descending by signed total.
C5_OrderDescendingBySignedTotal ==
    /\ ExampleTotals => StatsOrder = <<"Income", "Transport", "Food & Dining">>
    /\ cat_stats.status = "ok" =>
          \A i, j \in 1..Len(cat_stats.table) :
              i < j => cat_stats.table[i].Total >= cat_stats.table[j].Total

C5_Witness == ExampleTotals /\ Len(amounts) = 3

\* the sum of f[i] over i in 1..n
RECURSIVE SumTo(_, _)
SumTo(f, n) == IF n = 0 THEN 0 ELSE f[n] + SumTo(f, n - 1)

\* the sum over j of x - amounts[j]: the number of amounts times the
\* deviation of x from their mean
Deviation(x) == SumTo([j \in 1..Len(amounts) |-> x - amounts[j]], Len(amounts))

\* the sum over the pairs j < k of (amounts[j] - amounts[k])^2: the variance
\* of the amounts times n^2 as a population, times n * (n - 1) as a sample
PairSpread ==
    LET n == Len(amounts)
    IN  SumTo([j \in 1..n |->
                  SumTo([k \in 1..n |->
                            IF j < k
                            THEN (amounts[j] - amounts[k]) * (amounts[j] - amounts[k])
                            ELSE 0], n)], n)

AllEqual == \A i, j \in 1..Len(amounts) : amounts[i] = amounts[j]

Flagged == {i \in 1..Len(is_anomaly) : is_anomaly[i]}

\* detect_anomalies has returned, called with the default threshold on
\* amounts that are not all equal
DefaultRun ==
    /\ pc = "returned" /\ threshold = 3
    /\ Len(is_anomaly) = Len(amounts)
    /\ ~AllEqual

\* C6 as stated: with the default threshold, a transaction is flagged exactly
\* when |amount - mean| / stddev > 3, stddev being the population standard
\* deviation of the amounts.
C6_FlaggedBeyondPopulationStd ==
    DefaultRun =>
        \A i \in 1..Len(amounts) :
            is_anomaly[i] <=>
                Deviation(amounts[i]) * Deviation(amounts[i]) > 9 * PairSpread

\* C6, amended: the same with stddev the sample standard deviation (divisor
\* n - 1).
C6_FlaggedBeyondSampleStd ==
    DefaultRun =>
        \A i \in 1..Len(amounts) :
            is_anomaly[i] <=>
                Deviation(amounts[i]) * Deviation(amounts[i]) * (Len(amounts) - 1)
                    > 9 * Len(amounts) * PairSpread

\* eleven amounts with one far from the others, which is flagged
C6_Witness == DefaultRun /\ Len(amounts) = 11 /\ Cardinality(Flagged) = 1

\* C7: when all the amounts are equal, a single transaction included,
\* detect_anomalies flags none of them, whatever the threshold.
C7_EqualAmountsNeverFlagged ==
    (pc = "returned" /\ AllEqual) =>
        /\ Len(is_anomaly) = Len(amounts)
        /\ Flagged = {}

Max0(x) == IF x > 0 THEN x ELSE 0

\* C8: calculate_net_flow returns income, the sum of the positive amounts;
\* expenses, the absolute value of the sum of the negative amounts; net, their
\* difference; and savings_rate, 100 * net / income when income is positive and
\* exactly 0 otherwise.
C8_NetFlow ==
    net_flow.status = "ok" =>
        LET n == Len(amounts)
        IN  /\ net_flow.income = SumTo([i \in 1..n |-> Max0(amounts[i])], n)
            /\ net_flow.expenses = SumTo([i \in 1..n |-> Max0(0 - amounts[i])], n)
            /\ net_flow.income >= 0 /\ net_flow.expenses >= 0
            /\ net_flow.net = net_flow.income - net_flow.expenses
            /\ net_flow.net = SumTo(amounts, n)
            /\ net_flow.savings_rate.den > 0
            /\ net_flow.income > 0 =>
                  /\ net_flow.savings_rate.num = 100 * SumTo(amounts, n)
                  /\ net_flow.savings_rate.den = net_flow.income
            /\ net_flow.income <= 0 => net_flow.savings_rate.num = 0

\* expenses without income: the savings rate is 0
C8_Witness ==
    /\ net_flow.status = "ok"
    /\ net_flow.income = 0 /\ net_flow.expenses = 20000
    /\ net_flow.savings_rate.num = 0

\* income and expenses: net and the savings rate
C8_WitnessIncome ==
    /\ net_flow.status = "ok"
    /\ net_flow.income = 50000 /\ net_flow.expenses = 20000 /\ net_flow.net = 30000
    /\ net_flow.savings_rate.num = 60 * net_flow.savings_rate.den

(***************************************************************************)
(* The category of a description                                           *)
(***************************************************************************)
\* the catalog as the list of its (category, keyword) pairs, 'Other' left out
CatalogPairs ==
    UNION {{<<i, k>> : k \in 1..Len(CATEGORIES[i].keywords)} :
              i \in {j \in 1..Len(CATEGORIES) : CATEGORIES[j].cat # "Other"}}

KeywordAt(p) == CATEGORIES[p[1]].keywords[p[2]]

\* the scores of the keywords against the case-folded description
DescriptionScores == partial_ratio[Lower(PyStr(description))]

\* p comes before q in the catalog
Earlier(p, q) == p[1] < q[1] \/ (p[1] = q[1] /\ p[2] < q[2])

Qualifying ==
    LET scores == DescriptionScores
    IN  {p \in CatalogPairs : scores[KeywordAt(p)] > 70}

\* the pairs of the highest score above 70
Highest ==
    LET scores == DescriptionScores
        above  == Qualifying
    IN  {p \in above : \A q \in above : scores[KeywordAt(q)] <= scores[KeywordAt(p)]}

FirstOf(pairs) == CHOOSE p \in pairs : \A q \in pairs : p = q \/ Earlier(p, q)

\* C9: categorize_transaction returns 'Other' when no keyword scores above 70
\* against the case-folded description; otherwise the category of the keyword
\* of the highest score, the first in catalog order among equal scores.  The
\* keyword 'dstv', listed under two categories, selects the earlier one only.
C9_FirstHighestScoreWins ==
    pc = "returned" =>
        LET highest == Highest
        IN  /\ Len(category) = 1
            /\ category[1] \in CategoryNames
            /\ highest = {} => category[1] = "Other"
            /\ highest # {} => category[1] = CATEGORIES[FirstOf(highest)[1]].cat
            /\ category[1] = "Entertainment" =>
                   \E p \in highest :
                       /\ CATEGORIES[p[1]].cat = "Entertainment"
                       /\ KeywordAt(p) # "dstv"

\* 'dstv' alone scores above 70: the category is the earlier of its two
C9_Witness ==
    /\ pc = "returned"
    /\ Cardinality(Qualifying) = 2
    /\ \A p \in Qualifying : KeywordAt(p) = "dstv"
    /\ category = <<"Utilities">>

\* two keywords of different categories with the same score above 70
C9_WitnessTie ==
    /\ pc = "returned"
    /\ Cardinality({p[1] : p \in Highest}) = 2
    /\ \A p \in Highest : KeywordAt(p) # "dstv"
    /\ category[1] = CATEGORIES[FirstOf(Highest)[1]].cat

(***************************************************************************)
(* The header row                                                          *)
(***************************************************************************)
\* the rows among the first 20 that hold a header keyword
HeaderHits == {i \in 1..Len(df_raw.rows) : i <= 20 /\ IsHeaderRow(df_raw.rows[i])}

\* C10: detect_and_skip_header scans at most the first 20 rows from the top;
\* the first row holding a header keyword becomes the column labels and the
\* rows strictly below it become the data; after six rows without a keyword
\* the first data row is the row below the header; a table without such a
\* row is returned unchanged.
C10_FirstKeywordRowBecomesHeader ==
    pc = "returned" =>
        /\ HeaderHits = {} => header_out = df_raw
        /\ \A h \in HeaderHits :
              (\A j \in 1..(h - 1) : j \notin HeaderHits) =>
                  /\ header_out.columns = df_raw.rows[h]
                  /\ Len(header_out.rows) = Len(df_raw.rows) - h
                  /\ \A r \in 1..(Len(df_raw.rows) - h) :
                        header_out.rows[r] = df_raw.rows[h + r]

\* six rows without a keyword, the header, then the first transaction
C10_Witness ==
    /\ pc = "returned"
    /\ HeaderHits # {} /\ (\A h \in HeaderHits : h >= 7) /\ 7 \in HeaderHits
    /\ Len(df_raw.rows) = 8
    /\ header_out.columns = df_raw.rows[7]
    /\ header_out.rows = <<df_raw.rows[8]>>
    /\ header_out.rows[1][2] = Str("Uber Trip Lagos")

\* the header in the 21st row: out of reach, the table comes back unchanged
C10_WitnessBeyondTwenty ==
    /\ pc = "returned"
    /\ Len(df_raw.rows) >= 21 /\ IsHeaderRow(df_raw.rows[21])
    /\ header_out = df_raw

(***************************************************************************)
(* The run of the pipeline                                                 *)
(***************************************************************************)
\* the cleaning returned a table without rows
CleanedEmpty == df_clean.status = "ok" /\ Len(df_clean.rows) = 0

\* the cleaning returned a table with rows
CleanedRows == df_clean.status = "ok" /\ Len(df_clean.rows) > 0

\* no statistic was called and no view computed
NoStatistic ==
    /\ pc \in {"processed", "done"}
    /\ category = <<>> /\ is_anomaly = <<>> /\ month = <<>>
    /\ net_flow = None /\ cat_stats = None /\ m_stats = None /\ budget_view = None

AnyView == net_flow # None \/ cat_stats # None \/ m_stats # None

\* category, is_anomaly and month are assigned, one entry per row
Enriched ==
    /\ Len(category) = Len(df_clean.rows)
    /\ Len(is_anomaly) = Len(df_clean.rows)
    /\ Len(month) = Len(df_clean.rows)

EmptyIsNoError ==
    CleanedEmpty => (NoStatistic /\ screen \in {"upload", "warning"})

ViewsAfterEnrichment == AnyView => (CleanedRows /\ Enriched)

\* C11: in every run of the pipeline, when the cleaning leaves no row the
\* outcome is the warning of an empty result, which is not the error, and
\* detect_anomalies and the aggregates are never called on the empty table;
\* when rows are left, category, is_anomaly and month are all assigned before
\* any aggregate view is computed.
C11_EmptyWarnedViewsAfterEnrichment ==
    /\ [](EmptyIsNoError /\ ViewsAfterEnrichment)
    /\ (CleanedEmpty ~> screen = "warning")

\* a statement whose rows are all dropped, reported by the warning
C11_Witness ==
    /\ CleanedEmpty /\ screen = "warning" /\ pc = "done"
    /\ Len(SourceRows) > 0
    /\ HasLabel("Debit")

\* a statement with rows left, on the dashboard
C11_WitnessDashboard ==
    /\ CleanedRows /\ screen = "dashboard" /\ AnyView /\ Enriched
    /\ Len(m_stats.table) = 2


(***************************************************************************)
(* The budget tracker                                                      *)
(***************************************************************************)
BudgetDrawn == pc = "done" /\ budget_view # None

\* C12: for every budget target and every spent value >= 0, percent is
\* spent / budget * 100 when budget > 0, 100 when budget <= 0 and spent > 0,
\* 0 when budget <= 0 and spent = 0; the status is over-budget iff
\* percent >= 100, approaching iff 80 <= percent < 100, within-budget iff
\* percent < 80, and exactly one of the three.
C12_PercentAndBands ==
    BudgetDrawn =>
        LET s   == budget_view.spent
            p   == budget_view.percent
            msg == budget_view.status_msg
        IN  /\ s >= 0
            /\ p.den > 0
            /\ (budget > 0 => p.num * budget = s * 100 * p.den)
            /\ (budget <= 0 /\ s > 0 => p.num = 100 * p.den)
            /\ (budget <= 0 /\ s = 0 => p.num = 0)
            /\ msg \in {"OVER BUDGET", "Approaching Limit", "Within Budget"}
            /\ (msg = "OVER BUDGET" <=> p.num >= 100 * p.den)
            /\ (msg = "Approaching Limit" <=>
                    (p.num >= 80 * p.den /\ p.num < 100 * p.den))
            /\ (msg = "Within Budget" <=> p.num < 80 * p.den)

\* spent is exactly 80 percent of a positive budget
C12_Witness ==
    /\ BudgetDrawn
    /\ budget = 1250 /\ budget_view.spent = 1000
    /\ budget_view.status_msg = "Approaching Limit"

\* no budget, something spent
C12_WitnessNoBudget ==
    /\ BudgetDrawn
    /\ budget <= 0 /\ budget_view.spent > 0
    /\ budget_view.status_msg = "OVER BUDGET"

\* no budget, nothing spent in the month before the latest one
C12_WitnessNothingSpent ==
    /\ BudgetDrawn
    /\ budget = 0 /\ period = "Last Month" /\ budget_view.spent = 0
    /\ \E i \in 1..Len(amounts) : amounts[i] < 0
    /\ budget_view.status_msg = "Within Budget"


(***************************************************************************)
(* The monthly table                                                       *)
(***************************************************************************)
MonthlyDone == pc = "monthly" /\ m_stats # None

\* 'YYYY-MM' of a date
YearMonth(d) ==
    NatToStr(d.n \div 10000) \o "-" \o SubSeq(NatToStr(100 + ((d.n \div 100) % 100)), 2, 3)

\* the transactions dated in the month called key
DatedIn(key) == {i \in 1..Len(dates) : YearMonth(dates[i]) = key}

RECURSIVE SumOver(_)
SumOver(I) ==
    IF I = {} THEN 0
    ELSE LET i == CHOOSE j \in I : TRUE IN amounts[i] + SumOver(I \ {i})

RECURSIVE CountsUpTo(_, _)
CountsUpTo(t, k) == IF k = 0 THEN 0 ELSE t[k].Count + CountsUpTo(t, k - 1)

\* C14: for every non-empty transaction set calculate_monthly_stats returns
\* exactly one row per distinct year-month in which a transaction is dated,
\* keyed 'YYYY-MM'; a row's Total is the sum and its Count the number of the
\* month's transactions, its Average is Total / Count rounded to 2 decimals
\* (held here in hundredths); the rows are in ascending calendar order and
\* the Counts add up to the number of transactions.
C14_OneRowPerMonthAscending ==
    MonthlyDone =>
        LET t == m_stats.table
        IN  /\ Len(dates) > 0
            /\ {t[k].month : k \in 1..Len(t)} = {YearMonth(dates[i]) : i \in 1..Len(dates)}
            /\ \A k, l \in 1..Len(t) : k # l => t[k].month # t[l].month
            /\ \A k \in 1..Len(t) :
                  LET members == DatedIn(t[k].month)
                  IN  /\ Len(t[k].month) = 7
                      /\ t[k].Total = SumOver(members)
                      /\ t[k].Count = Cardinality(members)
                      /\ 2 * Abs(t[k].Average * t[k].Count - 100 * t[k].Total) <= t[k].Count
            /\ \A k \in 1..(Len(t) - 1) :
                  \A i \in DatedIn(t[k].month), j \in DatedIn(t[k + 1].month) :
                      dates[i].n < dates[j].n
            /\ CountsUpTo(t, Len(t)) = Len(dates)

\* three months, the transactions given latest first
C14_Witness ==
    /\ MonthlyDone
    /\ Len(m_stats.table) = 3
    /\ dates[1].n > dates[2].n /\ dates[2].n > dates[3].n
    /\ m_stats.table[1].month = "2023-12" /\ m_stats.table[3].month = "2024-02"

\* one month of three transactions whose average is rounded: -254 / 3
C14_WitnessRounded ==
    /\ MonthlyDone
    /\ Len(m_stats.table) = 1
    /\ m_stats.table[1].Total = 0 - 254 /\ m_stats.table[1].Count = 3
    /\ m_stats.table[1].Average = 0 - 8467


(***************************************************************************)
(* The parsing of debit and credit cells                                   *)
(***************************************************************************)
\* the text of a cell with the commas removed and the blanks trimmed
Token(c) == IF NotNa(c) THEN Strip(Replace(PyStr(c), ",", "")) ELSE ""

\* the value the stated policy gives a cell: 0 for a blank cell, for '' and
\* for '--', the number for a numeric token, 0 for anything else
LenientValue(c) ==
    IF Token(c) = "" \/ Token(c) = "--" THEN 0
    ELSE IF PyFloat(Token(c)).ok THEN PyFloat(Token(c)).v ELSE 0

\* a token that holds '--' beside other characters
EmbedsDashes(c) == Contains(Token(c), "--") /\ Token(c) # "--"

SamePolicyOnEveryPath(c) ==
    /\ ParseBothCell(c) = LenientValue(c)
    /\ ParseDebitOnlyCell(c) = LenientValue(c)
    /\ ParseCreditOnlyCell(c) = LenientValue(c)

MoneyCells ==
    {SourceCell(r, "Debit") : r \in {q \in 1..Len(SourceRows) : HasLabel("Debit")}}
        \cup {SourceCell(r, "Credit") : r \in {q \in 1..Len(SourceRows) : HasLabel("Credit")}}

PolicyAmount(r) ==
    (IF HasLabel("Credit") THEN LenientValue(SourceCell(r, "Credit")) ELSE 0)
        - (IF HasLabel("Debit") THEN LenientValue(SourceCell(r, "Debit")) ELSE 0)

Parsed == JustLoaded /\ df_clean.status = "ok" /\ (HasLabel("Debit") \/ HasLabel("Credit"))

\* C13: on every reconciliation path (both columns, debit only, credit only)
\* a debit or credit cell parses to 0 when it is blank, '' or '--', to its
\* value when it is a number once the commas are removed, and to 0 for any
\* other token ('5--', 'abc'); parsing fails neither the row nor the batch,
\* and a cell text parses to the same value on all three paths.
C13_LenientParseOnEveryPath ==
    /\ JustLoaded =>
          (df_clean.status = "error" =>
              df_clean.error \notin {"Error processing debit/credit columns",
                                     "Error processing debit column",
                                     "Error processing credit column"})
    /\ Parsed =>
          /\ \A c \in MoneyCells : SamePolicyOnEveryPath(c)
          /\ \A k \in 1..Len(df_clean.rows) :
                \E r \in 1..Len(SourceRows) :
                    /\ ComesFrom(k, r)
                    /\ CleanCell(k, "amount") = Num(PolicyAmount(r))

\* the policy holds for every cell that has no '--' beside other characters
LenientExceptEmbeddedDashes ==
    Parsed => \A c \in MoneyCells : EmbedsDashes(c) \/ SamePolicyOnEveryPath(c)

\* a row of debit '5--' and credit 'abc' is returned with an amount
DashesBecomeDigits ==
    /\ Parsed
    /\ \E r \in 1..Len(SourceRows), k \in 1..Len(df_clean.rows) :
          /\ ComesFrom(k, r)
          /\ SourceCell(r, "Description") = Str("ATM Withdrawal")
          /\ PolicyAmount(r) = 0


(***************************************************************************)
(* The roles of the columns                                                *)
(***************************************************************************)
Mapped == pc = "returned" /\ mapping # None

\* the label of the i-th column of the statement, case-folded
Folded(i) == Lower(Strip(df_raw.columns[i].s))

Has(i, word) == Contains(Folded(i), word)

\* the role the mapping gives the i-th column, NoRole when it gives none
RoleOf(i) == IF Folded(i) \in DOMAIN mapping THEN mapping[Folded(i)] ELSE NoRole

DescriptionRule(i) ==
    Has(i, "desc") \/ Has(i, "narration") \/ Has(i, "details") \/ Has(i, "particular")

DateRule(i) == Has(i, "trans") /\ Has(i, "date")

\* what the rules give, taken in the order description, date, debit, credit
FirstRule(i) ==
    IF DescriptionRule(i) THEN "description"
    ELSE IF DateRule(i) THEN (IF Has(i, "value") THEN NoRole ELSE "date")
    ELSE IF Has(i, "debit") /\ Has(i, "credit") THEN NoRole
    ELSE IF Has(i, "debit") THEN "debit"
    ELSE IF Has(i, "credit") THEN "credit"
    ELSE NoRole

TransactionDateColumn(i) == ~DescriptionRule(i) /\ DateRule(i) /\ ~Has(i, "value")

ValueDateColumn(i) == ~DescriptionRule(i) /\ Has(i, "value") /\ Has(i, "date")

\* C15: the mapping gives each label at most one role, by the first rule
\* that matches in the order description, date, debit, credit: a label with
\* 'desc', 'narration', 'details' or 'particular' is description even with
\* 'trans' and 'date' in it; a label with 'trans' and 'date' is date only
\* without 'value', and with 'value' it gets no role at all, debit or credit
\* included; a label with 'debit' and 'credit' is neither.  With a
\* transaction-date and a value-date column, the date of the returned rows
\* is that of the transaction-date column.
C15_FirstMatchingRule ==
    Mapped =>
        /\ \A i \in 1..Len(df_raw.columns) :
              /\ RoleOf(i) = FirstRule(i)
              /\ (DescriptionRule(i) /\ DateRule(i)) => RoleOf(i) = "description"
              /\ (DateRule(i) /\ Has(i, "value") /\ ~DescriptionRule(i)) => RoleOf(i) = NoRole
              /\ (Has(i, "debit") /\ Has(i, "credit")) => RoleOf(i) \notin {"debit", "credit"}
        /\ \A i, j \in 1..Len(df_raw.columns) :
              (TransactionDateColumn(i) /\ ValueDateColumn(j) /\ df_clean.status = "ok") =>
                  \A k \in 1..Len(df_clean.rows) :
                      CleanCell(k, "date") = ToDatetime(df_raw.rows[1][i])

\* 'Trans Value Date Debit' gets no role
C15_Witness ==
    /\ Mapped
    /\ Len(df_raw.columns) = 1
    /\ Has(1, "trans") /\ Has(1, "date") /\ Has(1, "value") /\ Has(1, "debit")
    /\ RoleOf(1) = NoRole

\* 'Desc Trans Date' is the description
C15_WitnessDescriptionFirst ==
    /\ Mapped
    /\ Len(df_raw.columns) = 1
    /\ DescriptionRule(1) /\ DateRule(1) /\ RoleOf(1) = "description"

\* the value date comes first, the date returned is the transaction date
C15_WitnessBothDates ==
    /\ Mapped
    /\ Len(df_raw.columns) > 2
    /\ ValueDateColumn(1) /\ TransactionDateColumn(2)
    /\ df_clean.status = "ok" /\ Len(df_clean.rows) = 1
    /\ CleanCell(1, "date") = Date(2024, 1, 16)


(***************************************************************************)
(* The keywords of a header row                                            *)
(***************************************************************************)
StatedKeywords == {"transaction", "date", "description", "debit", "credit", "narration"}

\* the non-empty cells of a row, case-folded and joined
RowText(row) ==
    JoinStr(SelectSeqIdx([i \in 1..Len(row) |-> Lower(PyStr(row[i]))],
                         [i \in 1..Len(row) |-> NotNa(row[i])], 1), " ")

HoldsStatedKeyword(row) == \E w \in StatedKeywords : Contains(RowText(row), w)

\* the row of the statement whose cells are the labels of the table returned
Promoted(h) ==
    /\ header_out.columns = df_raw.rows[h]
    /\ header_out.rows = SubSeq(df_raw.rows, h + 1, Len(df_raw.rows))

\* C16: detect_and_skip_header makes a row the header only if its text holds
\* one of the keywords transaction, date, description, debit, credit,
\* narration; a row holding none of the six, the data row 'transfer to
\* savings' for one, is never made the header.
C16_OnlyKeywordRowsPromoted ==
    pc = "returned" =>
        /\ header_out # df_raw =>
              \E h \in 1..Len(df_raw.rows) : Promoted(h) /\ HoldsStatedKeyword(df_raw.rows[h])
        /\ \A h \in 1..Len(df_raw.rows) :
              (Promoted(h) /\ header_out # df_raw) => HoldsStatedKeyword(df_raw.rows[h])

\* the transaction 'Transfer to savings' is made the header
TransferPromoted ==
    /\ pc = "returned"
    /\ header_out # df_raw
    /\ header_out.columns[2] = Str("Transfer to savings")

\* apart from rows that hold 'trans' and none of the six keywords, only rows
\* holding one of the six are made the header
OnlyKeywordOrTransRowsPromoted ==
    pc = "returned" =>
        \A h \in 1..Len(df_raw.rows) :
            (Promoted(h) /\ header_out # df_raw) =>
                HoldsStatedKeyword(df_raw.rows[h]) \/ Contains(RowText(df_raw.rows[h]), "trans")


(***************************************************************************)
(* The columns the returned table takes its values from                    *)
(***************************************************************************)
\* a statement of one row has been returned with its row
ReturnedRow ==
    /\ Mapped
    /\ df_clean.status = "ok" /\ Len(df_clean.rows) = 1
    /\ Len(df_raw.rows) = 1

StatementColumns == 1..Len(df_raw.columns)

\* the date returned is that of the i-th column, a column of dates
DateFrom(i) ==
    /\ ValidDate(ToDatetime(df_raw.rows[1][i]))
    /\ CleanCell(1, "date") = ToDatetime(df_raw.rows[1][i])

\* the amount returned is the cell of the i-th column, as it is
AmountFrom(i) == Folded(i) = "amount" /\ CleanCell(1, "amount") = df_raw.rows[1][i]

MoneyMapped == \E i \in StatementColumns : RoleOf(i) \in {"debit", "credit"}

ThreeColumns == df_clean.columns = <<"date", "description", "amount">>

\* C17 as stated: a column whose label matches none of the four rules gives
\* the returned table no values, but for 'amount' when no debit and no credit
\* column is there; a column labelled exactly 'date' is not the date column,
\* and 'amount' is not used beside a debit or a credit column.
C17_UnmappedColumnsGiveNoValues ==
    ReturnedRow =>
        /\ ThreeColumns
        /\ \A i \in StatementColumns :
              /\ DateFrom(i) => RoleOf(i) = "date"
              /\ AmountFrom(i) => ~MoneyMapped
              /\ (Folded(i) = "amount" /\ ~MoneyMapped) => AmountFrom(i)

\* C17 amended: the columns that give values without a role are those whose
\* case-folded label is itself 'date', the date column of the table returned,
\* and 'amount' when no debit and no credit column is there.
C17_DateAndAmountKeepTheirName ==
    ReturnedRow =>
        /\ ThreeColumns
        /\ \A i \in StatementColumns :
              /\ DateFrom(i) => (RoleOf(i) = "date" \/ Folded(i) = "date")
              /\ (Folded(i) = "date" /\ RoleOf(i) = NoRole) => DateFrom(i)
              /\ AmountFrom(i) => ~MoneyMapped
              /\ (Folded(i) = "amount" /\ ~MoneyMapped) => AmountFrom(i)

\* a value date and a column labelled 'Date': the dates returned are those
\* of 'Date', which has no role
C17_Witness ==
    /\ ReturnedRow
    /\ Len(df_raw.columns) > 2
    /\ ValueDateColumn(1) /\ ~DateFrom(1)
    /\ Folded(2) = "date" /\ RoleOf(2) = NoRole /\ DateFrom(2)

\* 'Amount' beside 'Debit': the amount is the debit, negated
C17_WitnessAmountUnused ==
    /\ ReturnedRow
    /\ MoneyMapped
    /\ \E i \in StatementColumns : Folded(i) = "amount" /\ ~AmountFrom(i)
    /\ CleanCell(1, "amount") = Num(0 - 1000)

\* 'Amount' alone is used as it is
C17_WitnessAmountUsed ==
    /\ ReturnedRow
    /\ ~MoneyMapped
    /\ \E i \in StatementColumns : AmountFrom(i)


(***************************************************************************)
(* The smallest set in which a transaction can be flagged                  *)
(***************************************************************************)
\* detect_anomalies has returned, called with the default threshold
DefaultCall ==
    /\ pc = "returned" /\ threshold = DefaultThreshold
    /\ Len(is_anomaly) = Len(amounts)

\* all the amounts but the last are equal
LoneOutlier ==
    /\ \A i, j \in 1..(Len(amounts) - 1) : amounts[i] = amounts[j]
    /\ amounts[Len(amounts)] # amounts[1]

\* C18: with the default threshold 3, detect_anomalies flags no transaction
\* of a set of fewer than 11 rows, whatever the amounts: a value lies more
\* than 3 standard deviations from the mean only in a set of 11 rows or more.
C18_NothingFlaggedBelowElevenRows ==
    (DefaultCall /\ Len(amounts) < 11) => Flagged = {}

\* ten rows, nine equal amounts and one apart: nothing is flagged
C18_Witness ==
    /\ DefaultCall
    /\ Len(amounts) = 10 /\ LoneOutlier
    /\ Flagged = {}

\* eleven rows, ten equal amounts and one apart: the one apart is flagged
C18_WitnessElevenRows ==
    /\ DefaultCall
    /\ Len(amounts) = 11 /\ LoneOutlier
    /\ Flagged = {11}


(***************************************************************************)
(* The rows returned, among the rows given                                 *)
(***************************************************************************)
\* the amount of a source row, as the loader makes it
SourceAmount(r) ==
    IF HasLabel("Debit") \/ HasLabel("Credit") THEN Num(CreditValue(r) - DebitValue(r))
    ELSE SourceCell(r, "Amount")

\* the k-th returned row is the r-th source row, cleaned
SameRow(k, r) ==
    /\ ComesFrom(k, r)
    /\ CleanCell(k, "amount") = SourceAmount(r)

\* a reason to remove the r-th source row
Removable(r) ==
    \/ ~ValidDate(ToDatetime(SourceCell(r, "Trans. Date")))
    \/ ~NotNa(SourceCell(r, "Description"))
    \/ ~NotNa(SourceAmount(r))
    \/ SourceAmount(r) = Num(0)

\* the returned rows are source rows, in their order, each taken once, and
\* every source row left out has a reason to be removed
ReturnedSubsequence ==
    df_clean.status = "ok" =>
        \E f \in [1..Len(df_clean.rows) -> 1..Len(SourceRows)] :
            /\ \A k \in 1..(Len(df_clean.rows) - 1) : f[k] < f[k + 1]
            /\ \A k \in 1..Len(df_clean.rows) : SameRow(k, f[k])
            /\ \A r \in 1..Len(SourceRows) :
                  (\A k \in 1..Len(df_clean.rows) : f[k] # r) => Removable(r)

\* C19: the rows load_and_clean_expenses returns are a subsequence of the
\* data rows of the table it is given, the header re-based: cleaning removes
\* rows (unparseable date, missing description, zero or missing amount) and
\* never adds, duplicates or reorders them; a row that stays keeps its
\* description; the table given is left as it was.
C19_ReturnedRowsAreSubsequence ==
    /\ [](JustLoaded => ReturnedSubsequence)
    /\ [][df_raw' = df_raw]_vars

\* two different source rows are returned, in their order
C19_Witness ==
    /\ JustLoaded /\ df_clean.status = "ok"
    /\ Len(SourceRows) = 2 /\ Len(df_clean.rows) = 2
    /\ CleanCell(1, "description") # CleanCell(2, "description")
    /\ SameRow(1, 1) /\ SameRow(2, 2)

\* the first of two source rows is removed, the second stays
C19_WitnessRemoved ==
    /\ JustLoaded /\ df_clean.status = "ok"
    /\ Len(SourceRows) = 2 /\ Len(df_clean.rows) = 1
    /\ Removable(1) /\ SameRow(1, 2)

=============================================================================
